---- MODULE Spec2Model ----
(***************************************************************************)
(* A model of the PDF text extraction pipeline of GoodRich_PRF_OCR:        *)
(*   parsing/pdf_text.py     PDFTextExtractor                              *)
(*   parsing/pdf_ocr.py      PDFOCRProcessor                               *)
(*   parsing/table_parser.py TableParser                                   *)
(* A text is a sequence of characters, each character a string.  A Hangul  *)
(* character is written by its romanisation:                               *)
(*   해 hae  약 yak  환 hwan 급 geup 금 geum 경 gyeong 과 gwa 기 gi 간 gan    *)
(*   납 nap  입 ip   보 bo   험 heom 료 ryo  적 jeok  립 rip 부 bu 분 bun     *)
(*   장 jang 원 won  천 cheon 만 man 억 eok  년 nyeon 세 se  예 ye 시 si      *)
(*   특 teuk 담 dam  면 myeon 책 chaek 제 je 갱 gaeng 신 sin 감 gam 액 aek    *)
(*   합 hap  계 gye  률 ryul 추 chu  가 ga   내 nae   용 yong  ① c1         *)
(***************************************************************************)
EXTENDS Integers, Sequences, FiniteSets, TLC

(***************************************************************************)
(* Bounds of the model.                                                    *)
(***************************************************************************)
MaxPages == 2
MaxLines == 2

(***************************************************************************)
(* Python string primitives.                                               *)
(***************************************************************************)
\* the characters str.strip() and str.split() treat as whitespace
Whitespace == {" ", "\n", "\t", "\f"}

Digits == {"0", "1", "2", "3", "4", "5", "6", "7", "8", "9"}

RECURSIVE LStrip(_)
LStrip(t) ==
    IF t = <<>> THEN <<>>
    ELSE IF Head(t) \in Whitespace THEN LStrip(Tail(t)) ELSE t

RECURSIVE RStrip(_)
RStrip(t) ==
    IF t = <<>> THEN <<>>
    ELSE IF t[Len(t)] \in Whitespace THEN RStrip(SubSeq(t, 1, Len(t) - 1)) ELSE t

\* str.strip()
Strip(t) == RStrip(LStrip(t))

\* pat in text
Contains(text, pat) ==
    \E i \in 1..(Len(text) - Len(pat) + 1) : SubSeq(text, i, i + Len(pat) - 1) = pat

\* any(keyword in text for keyword in keywords)
ContainsAny(text, keywords) == \E k \in keywords : Contains(text, k)

\* text.split(sep) for a one-character separator: the fields between separators
RECURSIVE SplitOn(_, _)
SplitOn(text, sep) ==
    IF \A i \in 1..Len(text) : text[i] # sep THEN <<text>>
    ELSE LET p == CHOOSE i \in 1..Len(text) :
                      text[i] = sep /\ \A j \in 1..(i - 1) : text[j] # sep
         IN  <<SubSeq(text, 1, p - 1)>> \o SplitOn(SubSeq(text, p + 1, Len(text)), sep)

\* sep.join(parts)
RECURSIVE Join(_, _)
Join(parts, sep) ==
    IF parts = <<>> THEN <<>>
    ELSE IF Len(parts) = 1 THEN parts[1]
    ELSE parts[1] \o sep \o Join(Tail(parts), sep)

\* len(text.split()): the number of maximal runs of non-whitespace characters
WordStarts(text) ==
    {i \in 1..Len(text) :
        text[i] \notin Whitespace /\ (i = 1 \/ text[i - 1] \in Whitespace)}

\* the word of text.split() that starts at position i
WordLen(text, i) ==
    LET ends == {j \in i..Len(text) :
                    (\A k \in i..j : text[k] \notin Whitespace)
                    /\ (j = Len(text) \/ text[j + 1] \in Whitespace)}
    IN  (CHOOSE j \in ends : TRUE) - i + 1

\* text.count(pat): non-overlapping occurrences, scanning from the left
RECURSIVE CountOcc(_, _)
CountOcc(text, pat) ==
    LET hits == {i \in 1..(Len(text) - Len(pat) + 1) : SubSeq(text, i, i + Len(pat) - 1) = pat}
    IN  IF hits = {} THEN 0
        ELSE LET first == CHOOSE i \in hits : \A j \in hits : i <= j
             IN  1 + CountOcc(SubSeq(text, first + Len(pat), Len(text)), pat)

\* a dict key that may be absent: <<>> when absent, <<v>> when set
Absent == <<>>
Get(opt, default) == IF opt = <<>> THEN default ELSE opt[1]

(***************************************************************************)
(* Python numbers: float(s), float * int and int(float), on IEEE doubles.  *)
(* A double is kept as the bits of its 53-bit significand, most            *)
(* significant first, and the number of those bits after the binary point. *)
(***************************************************************************)
DigitChars == <<"0", "1", "2", "3", "4", "5", "6", "7", "8", "9">>
DigitValue(c) == (CHOOSE k \in 1..10 : DigitChars[k] = c) - 1

\* int(s) for a string of decimal digits ("" reads as 0)
RECURSIVE DecimalValue(_)
DecimalValue(ds) ==
    IF ds = <<>> THEN 0
    ELSE 10 * DecimalValue(SubSeq(ds, 1, Len(ds) - 1)) + DigitValue(ds[Len(ds)])

RECURSIVE Pow10(_)
Pow10(n) == IF n = 0 THEN 1 ELSE 10 * Pow10(n - 1)

\* s.replace(c, '')
RECURSIVE Without(_, _)
Without(s, c) ==
    IF s = <<>> THEN <<>>
    ELSE IF Head(s) = c THEN Without(Tail(s), c) ELSE <<Head(s)>> \o Without(Tail(s), c)

\* float(s) accepts s: digits with at most one point and at least one digit
FloatParses(s) ==
    /\ \A i \in 1..Len(s) : s[i] \in Digits \cup {"."}
    /\ Cardinality({i \in 1..Len(s) : s[i] = "."}) <= 1
    /\ \E i \in 1..Len(s) : s[i] \in Digits

\* the digits before and after the point of a string float(s) accepts
IntDigits(s) ==
    IF \E i \in 1..Len(s) : s[i] = "."
    THEN SubSeq(s, 1, (CHOOSE i \in 1..Len(s) : s[i] = ".") - 1)
    ELSE s
FracDigits(s) ==
    IF \E i \in 1..Len(s) : s[i] = "."
    THEN SubSeq(s, (CHOOSE i \in 1..Len(s) : s[i] = ".") + 1, Len(s))
    ELSE <<>>

\* the number of binary digits of n (0 for 0), n below 2^31
BitLen(n) == CHOOSE w \in 0..31 : IF n = 0 THEN w = 0 ELSE w > 0 /\ n \div 2^(w - 1) = 1

\* the last w binary digits of n, most significant first
BitsOfWidth(n, w) == [i \in 1..w |-> (n \div 2^(w - i)) % 2]

\* the binary digits of n, most significant first (none for 0)
BitsOf(n) == BitsOfWidth(n, BitLen(n))

\* the value of a bit string of at most 31 bits
RECURSIVE BitsValue(_)
BitsValue(bits) ==
    IF bits = <<>> THEN 0
    ELSE IF Len(bits) = 1 THEN bits[1]
    ELSE LET h == Len(bits) \div 2
         IN  BitsValue(SubSeq(bits, 1, h)) * 2^(Len(bits) - h)
             + BitsValue(SubSeq(bits, h + 1, Len(bits)))

\* what is left of the fraction num/den after its first n binary digits:
\* (num * 2^n) mod den, ten digits at a step
RECURSIVE FracRem(_, _, _)
FracRem(num, den, n) ==
    IF n = 0 THEN num
    ELSE IF n >= 10 THEN (FracRem(num, den, n - 10) * 2^10) % den
    ELSE (num * 2^n) % den

\* the first n binary digits of the fraction num/den, and what is left of it
FracBits(num, den, n) ==
    [bits |-> [i \in 1..n |-> (2 * FracRem(num, den, i - 1)) \div den],
     rem  |-> FracRem(num, den, n)]

\* bits + 1
BitsInc(bits) ==
    LET zeros == {i \in 1..Len(bits) : bits[i] = 0}
    IN  IF zeros = {} THEN <<1>> \o [i \in 1..Len(bits) |-> 0]
        ELSE LET p == CHOOSE i \in zeros : \A j \in zeros : j <= i
             IN  [i \in 1..Len(bits) |-> IF i < p THEN bits[i] ELSE IF i = p THEN 1 ELSE 0]

\* round to nearest, ties to even: kept bits, the first bit dropped, any later bit set
RoundHalfEven(kept, guard, sticky) ==
    IF guard = 1 /\ (sticky \/ kept[Len(kept)] = 1) THEN BitsInc(kept) ELSE kept

\* bits * c + carry, exactly, for c up to 2^20
RECURSIVE BitsTimesSmall(_, _, _)
BitsTimesSmall(bits, c, carry) ==
    IF bits = <<>> THEN BitsOf(carry)
    ELSE LET n    == Len(bits)
             w    == IF n >= 10 THEN 10 ELSE n
             t    == BitsValue(SubSeq(bits, n - w + 1, n)) * c + carry
         IN  BitsTimesSmall(SubSeq(bits, 1, n - w), c, t \div 2^w) \o BitsOfWidth(t % 2^w, w)

\* bits * c, exactly: a multiplier such as 100000000 is applied as 10000 * 10000
RECURSIVE BitsTimes(_, _)
BitsTimes(bits, c) ==
    IF c > 10000 /\ c % 10000 = 0
    THEN BitsTimes(BitsTimesSmall(bits, 10000, 0), c \div 10000)
    ELSE BitsTimesSmall(bits, c, 0)

\* a bit string without its leading zeros
Normalised(bits) ==
    IF \A i \in 1..Len(bits) : bits[i] = 0 THEN <<>>
    ELSE SubSeq(bits, CHOOSE i \in 1..Len(bits) :
                          bits[i] = 1 /\ \A j \in 1..(i - 1) : bits[j] = 0, Len(bits))

SignificandBits == 53

\* float(s): the significand and the number of its bits after the binary point
\* of the double nearest to whole + num/den, which is not 0
FloatOf(whole, num, den) ==
    LET ib    == BitsOf(whole)
        lead  == FracBits(num, den, 40).bits
        zeros == IF whole > 0 THEN 0
                 ELSE (CHOOSE z \in 1..40 : lead[z] = 1 /\ \A k \in 1..(z - 1) : lead[k] = 0) - 1
        nfrac == zeros + SignificandBits - Len(ib)
        fr    == FracBits(num, den, nfrac + 1)
        kept  == ib \o SubSeq(fr.bits, zeros + 1, nfrac)
    IN  [bits |-> RoundHalfEven(kept, fr.bits[nfrac + 1], fr.rem # 0), nfrac |-> nfrac]

\* x * c for a double x and an int c: the product rounded to a double
FloatTimes(x, c) ==
    LET p == Normalised(BitsTimes(x.bits, c))
    IN  IF Len(p) <= SignificandBits THEN [bits |-> p, nfrac |-> x.nfrac]
        ELSE [bits |-> RoundHalfEven(SubSeq(p, 1, SignificandBits), p[SignificandBits + 1],
                                     \E i \in (SignificandBits + 2)..Len(p) : p[i] = 1),
              nfrac |-> x.nfrac - (Len(p) - SignificandBits)]

\* int(x): the bits before the binary point (x is below 2^31 here)
FloatToInt(x) ==
    IF x.nfrac >= Len(x.bits) THEN 0
    ELSE BitsValue(SubSeq(x.bits, 1, Len(x.bits) - x.nfrac))

\* int(float(s) * multiplier) for a string s that float accepts
IntOfFloatTimes(s, multiplier) ==
    LET whole == DecimalValue(IntDigits(s))
        num   == DecimalValue(FracDigits(s))
        den   == Pow10(Len(FracDigits(s)))
    IN  IF whole = 0 /\ num = 0 THEN 0
        ELSE FloatToInt(FloatTimes(FloatOf(whole, num, den), multiplier))

(***************************************************************************)
(* The document and what the libraries can answer for it.                  *)
(***************************************************************************)
\* 해약환급금, 환급금, 경과기간, 납입보험료
KwSurrender == <<"hae", "yak", "hwan", "geup", "geum">>
KwRefund    == <<"hwan", "geup", "geum">>
KwElapsed   == <<"gyeong", "gwa", "gi", "gan">>
KwPremium   == <<"nap", "ip", "bo", "heom", "ryo">>

RECURSIVE Rep(_, _)
Rep(t, n) == IF n = 0 THEN <<>> ELSE t \o Rep(t, n - 1)

\* 51 characters of clean prose: 17 two-letter words
LongProse == Rep(<<"a", "b", " ">>, 17)

\* page.get_text("text") of one page, as the layout backend may return it
PrimaryTexts ==
    { <<>>, <<"\n">>, <<"a", "\n">>, KwRefund \o <<"1", "\n">>, LongProse }

\* len(structured_text): the number of non-blank spans of the page
SpanCounts == {0, 1}

\* the text and the spans of a page are read from the same text blocks: a page
\* whose text is not blank has a non-blank span
PrimaryPages == {tn \in PrimaryTexts \X SpanCounts : Strip(tn[1]) # <<>> => tn[2] > 0}

\* the text lines a page may consist of, as pdfminer reads them
FallbackLines == { <<"a">>, LongProse }

\* what pdfminer's extract_text writes for one page of k lines: each line and a
\* newline, then the form feed that ends the page
pdfminer_page_text(line, k) == Rep(line \o <<"\n">>, k) \o <<"\f">>

RECURSIVE ConcatAll(_)
ConcatAll(ts) == IF ts = <<>> THEN <<>> ELSE Head(ts) \o ConcatAll(Tail(ts))

\* extract_text(file_path) of a document of n pages, each of 0..MaxLines lines
FallbackTexts(n) ==
    { ConcatAll([i \in 1..n |-> pdfminer_page_text(line, ks[i])]) :
        line \in FallbackLines, ks \in [1..n -> 0..MaxLines] }

\* the lines PaddleOCR keeps (confidence > 0.5) for one page image
PaddleKept == { <<>>, << <<"b">> >>, << <<"b", "b">> >>, << <<"b">>, <<"b">> >>, << <<" ">> >> }

\* image_to_string(...) of one page image
TesseractRaw == { <<>>, <<"\n">>, <<"c", "c", "\n">> }

(***************************************************************************)
(* PDFTextExtractor: the OCR decision.                                     *)
(***************************************************************************)
\* _is_likely_scanned_page; the ratios are compared as fractions:
\* artifact_ratio > 0.3 and weird_spacing > 0.5
is_likely_scanned_page(text) ==
    IF text = <<>> \/ Len(text) < 10 THEN TRUE
    ELSE LET artifacts == Cardinality({i \in 1..Len(text) : text[i] \in {"l", "|", "I", "1"}})
             words     == Cardinality(WordStarts(text))
             denom     == IF words > 1 THEN words ELSE 1
         IN  10 * artifacts > 3 * Len(text)
             \/ 2 * CountOcc(text, <<" ", " ">>) > denom

\* _has_poor_text_quality; U+FFFD is written "ufffd"
is_encoding_issue(text) ==
    \/ Contains(text, <<"ufffd">>)
    \/ Contains(text, <<"?", "?", "?">>)
    \/ Contains(text, <<"i:", "?!", "1/2">>)    \* the mojibake of U+FFFD

has_poor_text_quality(text) ==
    IF text = <<>> THEN TRUE
    ELSE LET starts == WordStarts(text)
             single == Cardinality({i \in starts : WordLen(text, i) = 1})
         IN  IF starts # {}
             THEN is_encoding_issue(text) \/ 5 * single > 2 * Cardinality(starts)
             ELSE is_encoding_issue(text)

\* table_keywords of _detect_table_structure
table_keywords ==
    { KwSurrender, KwRefund, KwElapsed, KwPremium,
      <<"bo", "heom", "ryo">>, <<"teuk", "yak">>, <<"dam", "bo">>,
      <<"myeon", "chaek">>, <<"nap", "ip", "myeon", "je">>,
      <<"gaeng", "sin">>, <<"gam", "aek">> }

detect_table_structure(text) ==
    IF text = <<>> THEN FALSE
    ELSE LET has_keywords    == ContainsAny(text, table_keywords)
             has_numbers     == \E i \in 1..Len(text) : text[i] \in Digits
             has_table_chars == \/ Contains(text, <<"|">>)
                                \/ Contains(text, <<"\t">>)
                                \/ Contains(text, <<" ", " ">>)
         IN  IF Contains(text, KwSurrender) \/ Contains(text, KwRefund)
             THEN TRUE
             ELSE has_keywords /\ (has_numbers \/ has_table_chars)

\* the quality rule of _should_apply_ocr (step 3)
MinTextLength == 50

\* a mutant of should_apply_ocr: the table check runs before the trust rule
Mut_should_apply_ocr(page, page_text) ==
    LET text_objects_count == Get(page.text_objects_count, 0)
        cid_failure_rate   == Get(page.cid_to_unicode_failure_rate, 0)
    IN  IF detect_table_structure(page_text) THEN TRUE
        ELSE IF text_objects_count > 0 /\ cid_failure_rate = 0 THEN FALSE
        ELSE \/ Len(page_text) < MinTextLength
             \/ is_likely_scanned_page(page_text)
             \/ has_poor_text_quality(page_text)

\* _should_apply_ocr(page, page_text)
should_apply_ocr(page, page_text) ==
    LET text_objects_count == Get(page.text_objects_count, 0)
        cid_failure_rate   == Get(page.cid_to_unicode_failure_rate, 0)
    IN  IF text_objects_count > 0 /\ cid_failure_rate = 0 THEN FALSE
        ELSE IF detect_table_structure(page_text) THEN TRUE
        ELSE \/ Len(page_text) < MinTextLength
             \/ is_likely_scanned_page(page_text)
             \/ has_poor_text_quality(page_text)

(***************************************************************************)
(* PDFTextExtractor: the page records of the three sources.                *)
(***************************************************************************)
\* page_data of _extract_with_pymupdf
pymupdf_page(n, text, spans) ==
    [ page_number |-> n, text |-> text, text_length |-> Len(text),
      extraction_method |-> "pymupdf", has_text |-> (Strip(text) # <<>>),
      text_objects_count |-> <<spans>>, cid_to_unicode_failure_rate |-> <<0>>,
      has_ocr |-> Absent, original_text |-> Absent, ocr_confidence |-> Absent ]

\* page_data of _extract_with_pdfminer
pdfminer_page(n, text_part) ==
    [ page_number |-> n, text |-> text_part, text_length |-> Len(text_part),
      extraction_method |-> "pdfminer", has_text |-> (Strip(text_part) # <<>>),
      text_objects_count |-> Absent, cid_to_unicode_failure_rate |-> Absent,
      has_ocr |-> Absent, original_text |-> Absent, ocr_confidence |-> Absent ]

\* page_data of _create_empty_pages
empty_page(n) ==
    [ page_number |-> n, text |-> <<>>, text_length |-> 0,
      extraction_method |-> "failed", has_text |-> FALSE,
      text_objects_count |-> Absent, cid_to_unicode_failure_rate |-> Absent,
      has_ocr |-> Absent, original_text |-> Absent, ocr_confidence |-> Absent ]

\* "Assume 10 pages"
AssumedPages == 10

\* the loop of _split_text_into_pages over lines[i..]
RECURSIVE split_loop(_, _, _, _, _)
split_loop(lines, i, lines_per_page, current_page, out) ==
    IF i > Len(lines)
    THEN IF current_page # <<>> THEN Append(out, Join(current_page, <<"\n">>)) ELSE out
    ELSE LET cur == Append(current_page, lines[i])
         IN  IF i % lines_per_page = 0
             THEN split_loop(lines, i + 1, lines_per_page, <<>>,
                             Append(out, Join(cur, <<"\n">>)))
             ELSE split_loop(lines, i + 1, lines_per_page, cur, out)

\* _split_text_into_pages(text)
split_text_into_pages(text) ==
    LET lines == SplitOn(text, "\n")
        q     == Len(lines) \div AssumedPages
        lines_per_page == IF q > 1 THEN q ELSE 1
    IN  split_loop(lines, 1, lines_per_page, <<>>, <<>>)

\* a mutant of extract_with_pdfminer: the pages are numbered from 0
Mut_extract_with_pdfminer(full_text) ==
    LET text_parts == split_text_into_pages(full_text)
    IN  [i \in 1..Len(text_parts) |-> pdfminer_page(i - 1, text_parts[i])]

\* _extract_with_pdfminer, given what extract_text returned
extract_with_pdfminer(full_text) ==
    LET text_parts == split_text_into_pages(full_text)
    IN  [i \in 1..Len(text_parts) |-> pdfminer_page(i, text_parts[i])]

\* _create_empty_pages(file_path)
create_empty_pages(f) ==
    LET page_count == IF f.opens THEN f.page_count ELSE 1
    IN  [i \in 1..page_count |-> empty_page(i)]

\* the text is empty or made of whitespace only
Blank(text) == \A k \in 1..Len(text) : text[k] \in Whitespace

\* a mutant of any_text: every page must have text
Mut_any_text(ps) == ps # <<>> /\ \A i \in 1..Len(ps) : Strip(ps[i].text) # <<>>

\* any(page.get('text', '').strip() for page in pages)
any_text(ps) == \E i \in 1..Len(ps) : Strip(ps[i].text) # <<>>

(***************************************************************************)
(* PDFOCRProcessor: one page through the OCR engines.                      *)
(***************************************************************************)
\* _paddle_ocr_page: None (no result, or an exception), or the kept lines joined
paddle_ocr_page_results ==
    {Absent} \cup
    { << [ ocr_text |-> Join(kept, <<"\n">>), ocr_method |-> "paddle",
           ocr_confidence |-> IF Len(kept) > 0 THEN "high" ELSE "low" ] >> :
      kept \in PaddleKept }

\* _tesseract_ocr_page: None (blank text, or an exception), or the stripped text
tesseract_ocr_page_results ==
    {Absent} \cup
    { << [ ocr_text |-> Strip(raw), ocr_method |-> "tesseract",
           ocr_confidence |-> "medium" ] >> :
      raw \in {t \in TesseractRaw : Strip(t) # <<>>} }

\* _ocr_page(file_path, page_number): what it returns, the engines it ran,
\* whether fitz.open gave it a document and whether it called doc.close()
ocr_page_runs(f, page_number, processor) ==
    LET none    == [ret |-> Absent, engines |-> <<>>, opened |-> TRUE, closed |-> TRUE]
        failed  == [ret |-> Absent, engines |-> <<>>, opened |-> f.opens, closed |-> FALSE]
        paddle  == IF processor.use_paddle
                   THEN {[none EXCEPT !.ret = r, !.engines = <<"paddle">>] :
                            r \in paddle_ocr_page_results}
                   ELSE {none}
        after(p) == IF p.ret # Absent THEN {p}
                    ELSE IF processor.use_tesseract
                         THEN {[p EXCEPT !.ret = r, !.engines = Append(p.engines, "tesseract")] :
                                  r \in tesseract_ocr_page_results}
                         ELSE {p}
    IN  \* fitz.open raised, or doc[page_number - 1] or the rasterisation raised
        \* after it: lines 123-125 return None without doc.close()
        {failed} \cup
        IF f.opens /\ page_number <= f.page_count
        THEN UNION {after(p) : p \in paddle}
        ELSE {}

(***************************************************************************)
(* PDFTextExtractor: the merge of one page in _apply_ocr_enhancement.      *)
(***************************************************************************)
\* "\n\n[OCR추가내용]\n"
OcrSeparator ==
    <<"\n", "\n", "[", "O", "C", "R", "chu", "ga", "nae", "yong", "]", "\n">>

\* ocr_result.get('confidence', 0.0); the float 0.0 is written "0.0"
ocr_result_confidence(r) ==
    IF "confidence" \in DOMAIN r THEN r.confidence ELSE "0.0"

\* a mutant of ocr_text_is_better: OCR text of equal length replaces too
Mut_ocr_text_is_better(ocr_text, page_text) == Len(Strip(ocr_text)) >= Len(page_text)

\* is the existing text replaced by the OCR text?
ocr_text_is_better(ocr_text, page_text) == Len(Strip(ocr_text)) > Len(page_text)

\* a mutant of ocr_enhance_page: an OCR result without text is merged as well
Mut_ocr_enhance_page(page, should_use_ocr, ocr_result) ==
    LET page_text == Strip(page.text)
        merged ==
            IF should_use_ocr /\ ocr_result # Absent
            THEN LET ocr_text == ocr_result[1].ocr_text
                     chosen ==
                         IF ocr_text_is_better(ocr_text, page_text)
                         THEN [page EXCEPT !.text = ocr_text,
                                           !.extraction_method = "ocr_enhanced",
                                           !.original_text = <<page_text>>]
                         ELSE [page EXCEPT !.text = IF page_text # <<>>
                                                    THEN page_text \o OcrSeparator \o ocr_text
                                                    ELSE ocr_text,
                                           !.extraction_method = "hybrid"]
                 IN  [chosen EXCEPT !.ocr_confidence = <<ocr_result_confidence(ocr_result[1])>>,
                                    !.has_ocr = <<TRUE>>]
            ELSE [page EXCEPT !.has_ocr = <<FALSE>>]
        text_length == Len(merged.text)
    IN  [merged EXCEPT !.text_length = text_length, !.has_text = (text_length > 0)]

\* a mutant of ocr_enhance_page: the combined text keeps the method of the page
Mut_hybrid_keeps_method(page, should_use_ocr, ocr_result) ==
    LET page_text == Strip(page.text)
        merged ==
            IF should_use_ocr /\ ocr_result # Absent /\ ocr_result[1].ocr_text # <<>>
            THEN LET ocr_text == ocr_result[1].ocr_text
                     chosen ==
                         IF ocr_text_is_better(ocr_text, page_text)
                         THEN [page EXCEPT !.text = ocr_text,
                                           !.extraction_method = "ocr_enhanced",
                                           !.original_text = <<page_text>>]
                         ELSE [page EXCEPT !.text = IF page_text # <<>>
                                                    THEN page_text \o OcrSeparator \o ocr_text
                                                    ELSE ocr_text]
                 IN  [chosen EXCEPT !.ocr_confidence = <<ocr_result_confidence(ocr_result[1])>>,
                                    !.has_ocr = <<TRUE>>]
            ELSE [page EXCEPT !.has_ocr = <<FALSE>>]
        text_length == Len(merged.text)
    IN  [merged EXCEPT !.text_length = text_length, !.has_text = (text_length > 0)]

\* one iteration of the loop of _apply_ocr_enhancement: should_use_ocr is the
\* decision, ocr_result what _ocr_page returned (Absent when it was not called)
ocr_enhance_page(page, should_use_ocr, ocr_result) ==
    LET page_text == Strip(page.text)
        merged ==
            IF should_use_ocr /\ ocr_result # Absent /\ ocr_result[1].ocr_text # <<>>
            THEN LET ocr_text == ocr_result[1].ocr_text
                     chosen ==
                         IF ocr_text_is_better(ocr_text, page_text)
                         THEN [page EXCEPT !.text = ocr_text,
                                           !.extraction_method = "ocr_enhanced",
                                           !.original_text = <<page_text>>]
                         ELSE [page EXCEPT !.text = IF page_text # <<>>
                                                    THEN page_text \o OcrSeparator \o ocr_text
                                                    ELSE ocr_text,
                                           !.extraction_method = "hybrid"]
                 IN  [chosen EXCEPT !.ocr_confidence = <<ocr_result_confidence(ocr_result[1])>>,
                                    !.has_ocr = <<TRUE>>]
            ELSE [page EXCEPT !.has_ocr = <<FALSE>>]
        text_length == Len(merged.text)
    IN  [merged EXCEPT !.text_length = text_length, !.has_text = (text_length > 0)]

(***************************************************************************)
(* Regular expressions of the shape [class]+ \s* literal, as re.search     *)
(* matches them.                                                           *)
(***************************************************************************)
DigitComma == Digits \cup {","}
DigitDot   == Digits \cup {"."}

SetMin(S) == CHOOSE x \in S : \A y \in S : x <= y
SetMax(S) == CHOOSE x \in S : \A y \in S : y <= x

\* text[i..j] is a run of characters of the class
ClassRun(text, cls, i, j) == \A k \in i..j : text[k] \in cls

\* the literal stands in text from position p on
LitAt(text, lit, p) ==
    p + Len(lit) - 1 <= Len(text) /\ SubSeq(text, p, p + Len(lit) - 1) = lit

\* the lengths of whitespace that \s* can take after position j for the literal
\* to follow (only 0 when the pattern has no \s*)
Gaps(text, gap, lit, j) ==
    {w \in 0..(IF gap THEN Len(text) - j ELSE 0) :
        (\A k \in (j + 1)..(j + w) : text[k] \in Whitespace) /\ LitAt(text, lit, j + w + 1)}

\* re.search: the leftmost start, then the longest run, then the longest gap.
\* <<>> when there is no match, else the run from..to and the end of the match.
RunSearch(text, cls, gap, lit) ==
    LET ends(i) == {j \in i..Len(text) :
                       ClassRun(text, cls, i, j) /\ Gaps(text, gap, lit, j) # {}}
        starts  == {i \in 1..Len(text) : ends(i) # {}}
    IN  IF starts = {} THEN Absent
        ELSE LET i == SetMin(starts)
                 j == SetMax(ends(i))
             IN  <<[from |-> i, to |-> j,
                    end  |-> j + SetMax(Gaps(text, gap, lit, j)) + Len(lit)]>>

\* re.match(r'^\d+' + lit, line)
MatchDigitsThen(line, lit) ==
    \E j \in 1..Len(line) : ClassRun(line, Digits, 1, j) /\ LitAt(line, lit, j + 1)

\* re.match(r'^\d+\.\d+%', line)
MatchDecimalPercent(line) ==
    \E j \in 1..Len(line), k \in 1..Len(line) :
        /\ j + 2 <= k
        /\ ClassRun(line, Digits, 1, j)
        /\ line[j + 1] = "."
        /\ ClassRun(line, Digits, j + 2, k)
        /\ LitAt(line, <<"%">>, k + 1)

\* the decimal digits of n
RECURSIVE DecDigits(_)
DecDigits(n) ==
    IF n < 10 THEN <<DigitChars[n + 1]>>
    ELSE DecDigits(n \div 10) \o <<DigitChars[(n % 10) + 1]>>

\* f"{n:,}": the digits of n in groups of three
RECURSIVE Grouped(_)
Grouped(ds) ==
    IF Len(ds) <= 3 THEN ds
    ELSE Grouped(SubSeq(ds, 1, Len(ds) - 3)) \o <<",">> \o SubSeq(ds, Len(ds) - 2, Len(ds))

(***************************************************************************)
(* PDFTextExtractor: amounts of a span text.                               *)
(***************************************************************************)
Won      == <<"won">>
CheonWon == <<"cheon", "won">>
ManWon   == <<"man", "won">>
EokWon   == <<"eok", "won">>

\* patterns of _extract_amount_raw: the group takes the unit in
amount_raw_patterns ==
    << [cls |-> DigitComma, lit |-> Won],
       [cls |-> Digits,     lit |-> Won],
       [cls |-> DigitComma, lit |-> CheonWon],
       [cls |-> DigitComma, lit |-> ManWon],
       [cls |-> DigitDot,   lit |-> EokWon] >>

\* the group of the first of the patterns that the text matches, else ""
first_raw_match(text, patterns) ==
    LET hits == {p \in 1..Len(patterns) :
                    RunSearch(text, patterns[p].cls, FALSE, patterns[p].lit) # Absent}
    IN  IF hits = {} THEN <<>>
        ELSE LET p == SetMin(hits)
                 m == RunSearch(text, patterns[p].cls, FALSE, patterns[p].lit)[1]
             IN  SubSeq(text, m.from, m.end)

\* a mutant of extract_amount_raw: the pattern of 만원 is missing
Mut_extract_amount_raw(text) ==
    first_raw_match(text, SelectSeq(amount_raw_patterns, LAMBDA p : p.lit # ManWon))

\* _extract_amount_raw(text)
extract_amount_raw(text) == first_raw_match(text, amount_raw_patterns)

\* patterns of _extract_amount_norm: the group is the number, with its multiplier
amount_norm_patterns ==
    << [cls |-> DigitComma, lit |-> Won,      multiplier |-> 1],
       [cls |-> DigitComma, lit |-> CheonWon, multiplier |-> 1000],
       [cls |-> DigitComma, lit |-> ManWon,   multiplier |-> 10000],
       [cls |-> DigitDot,   lit |-> EokWon,   multiplier |-> 100000000] >>

\* the first pattern that the text matches with a group float() accepts decides;
\* a group float() rejects raises ValueError and the loop goes on
first_norm_match(text, strip_commas) ==
    LET group(p) ==
            LET m == RunSearch(text, amount_norm_patterns[p].cls, FALSE,
                               amount_norm_patterns[p].lit)[1]
                g == SubSeq(text, m.from, m.to)
            IN  IF strip_commas THEN Without(g, ",") ELSE g
        hits == {p \in 1..Len(amount_norm_patterns) :
                    /\ RunSearch(text, amount_norm_patterns[p].cls, FALSE,
                                 amount_norm_patterns[p].lit) # Absent
                    /\ FloatParses(group(p))}
    IN  IF hits = {} THEN 0
        ELSE IntOfFloatTimes(group(SetMin(hits)), amount_norm_patterns[SetMin(hits)].multiplier)

\* a mutant of extract_amount_norm: the thousands separators are left in the group
Mut_extract_amount_norm(text) == first_norm_match(text, FALSE)

\* _extract_amount_norm(text)
extract_amount_norm(text) == first_norm_match(text, TRUE)

\* re.sub(r'\s+', ' ', text)
RECURSIVE CollapseWhitespace(_)
CollapseWhitespace(t) ==
    IF t = <<>> THEN <<>>
    ELSE IF Head(t) \in Whitespace THEN <<" ">> \o CollapseWhitespace(LStrip(t))
    ELSE <<Head(t)>> \o CollapseWhitespace(Tail(t))

\* the unit substitutions of _normalize_text_for_comparison
unit_subs ==
    << [cls |-> DigitComma, lit |-> CheonWon, unit |-> "cheon"],
       [cls |-> DigitComma, lit |-> ManWon,   unit |-> "man"],
       [cls |-> DigitDot,   lit |-> EokWon,   unit |-> "eok"] >>

\* what a match is replaced by
unit_replacement(group, unit) ==
    IF unit = "cheon" THEN group \o <<",", "0", "0", "0">> \o Won
    ELSE IF unit = "man" THEN group \o <<",", "0", "0", "0", "0">> \o Won
    ELSE Grouped(DecDigits(IntOfFloatTimes(group, 100000000))) \o Won

\* re.sub(pattern, replacement, text): every match, from the left, without overlap
RECURSIVE SubUnit(_, _)
SubUnit(text, s) ==
    LET m == RunSearch(text, s.cls, TRUE, s.lit)
    IN  IF m = Absent THEN text
        ELSE SubSeq(text, 1, m[1].from - 1)
             \o unit_replacement(SubSeq(text, m[1].from, m[1].to), s.unit)
             \o SubUnit(SubSeq(text, m[1].end + 1, Len(text)), s)

\* float(m.group(1)) of the 억원 substitution raises ValueError for some match
RECURSIVE EokRaises(_)
EokRaises(text) ==
    LET m == RunSearch(text, DigitDot, TRUE, EokWon)
    IN  IF m = Absent THEN FALSE
        ELSE \/ ~FloatParses(SubSeq(text, m[1].from, m[1].to))
             \/ EokRaises(SubSeq(text, m[1].end + 1, Len(text)))

\* _normalize_text_for_comparison(text): <<normalized>>, or <<>> when it raises
normalize_text_for_comparison(text) ==
    LET spaced == CollapseWhitespace(Strip(text))
        won    == SubUnit(SubUnit(spaced, unit_subs[1]), unit_subs[2])
    IN  IF EokRaises(won) THEN Absent ELSE <<SubUnit(won, unit_subs[3])>>

(***************************************************************************)
(* PDFTextExtractor: the table-line classifier and the table structure.    *)
(***************************************************************************)
\* surrender_keywords of _is_table_line
surrender_keywords ==
    { KwSurrender, KwRefund, KwElapsed, KwPremium,
      <<"jeok", "rip", "bu", "bun">>, <<"bo", "jang", "bu", "bun">> }

\* amount_patterns of _is_table_line
line_amount_patterns ==
    << [cls |-> DigitComma, lit |-> Won],
       [cls |-> Digits,     lit |-> <<"nyeon">>],
       [cls |-> Digits,     lit |-> <<"se">>],
       [cls |-> DigitComma, lit |-> <<"%">>] >>

\* pattern_count: the number of the patterns that re.search finds in the line
pattern_count(line_text) ==
    Cardinality({p \in 1..Len(line_amount_patterns) :
        RunSearch(line_text, line_amount_patterns[p].cls, FALSE,
                  line_amount_patterns[p].lit) # Absent})

\* a mutant of is_table_line: one pattern is enough
Mut_is_table_line(line_text) ==
    ContainsAny(line_text, surrender_keywords) \/ pattern_count(line_text) >= 1

\* _is_table_line(line_text)
is_table_line(line_text) ==
    ContainsAny(line_text, surrender_keywords) \/ pattern_count(line_text) >= 2

\* the spans of a line that are not blank, and the line_text built from them
line_spans(spans) == SelectSeq(spans, LAMBDA s : Strip(s) # <<>>)

RECURSIVE line_text_of(_)
line_text_of(spans) ==
    IF spans = <<>> THEN <<>> ELSE Head(spans) \o <<" ">> \o line_text_of(Tail(spans))

\* the cells of one line, table_data holding n cells before it (bbox, font and
\* size are copied from the span and left out)
cells_of_line(spans, n, page_number) ==
    LET kept     == line_spans(spans)
        is_table == is_table_line(line_text_of(kept))
    IN  [i \in 1..Len(kept) |->
            [row             |-> n + i - 1,
             col             |-> IF is_table THEN i - 1 ELSE 0,
             text_raw        |-> kept[i],
             text_norm       |-> normalize_text_for_comparison(kept[i])[1],
             amount_raw      |-> extract_amount_raw(kept[i]),
             amount_norm_krw |-> extract_amount_norm(kept[i]),
             page            |-> page_number]]

RECURSIVE cells_of_lines(_, _, _)
cells_of_lines(lines, table_data, page_number) ==
    IF lines = <<>> THEN table_data
    ELSE cells_of_lines(Tail(lines),
                        table_data \o cells_of_line(Head(lines), Len(table_data), page_number),
                        page_number)

\* _extract_table_structure(page) for the lines of the page, each the texts of its
\* spans: an exception in any cell loses them all
extract_table_structure(lines, page_number) ==
    IF \E l \in 1..Len(lines) : \E s \in 1..Len(lines[l]) :
          Strip(lines[l][s]) # <<>> /\ normalize_text_for_comparison(lines[l][s]) = Absent
    THEN <<>>
    ELSE cells_of_lines(lines, <<>>, page_number)

(***************************************************************************)
(* TableParser.                                                            *)
(***************************************************************************)
StartsWith(line, prefix) == LitAt(line, prefix, 1)

\* 해약환급금 예시, and the mark ① that ends the section
KwSurrenderExample == KwSurrender \o <<" ", "ye", "si">>
SectionEndMark     == <<"c1">>

\* a mutant of section_lines: the line that ends the section does not stop the loop
RECURSIVE Mut_section_lines(_, _, _)
Mut_section_lines(lines, in_surrender_section, surrender_lines) ==
    IF lines = <<>> THEN surrender_lines
    ELSE LET line == Strip(Head(lines))
             in_section == \/ in_surrender_section
                           \/ ContainsAny(line, {KwSurrenderExample, KwElapsed})
         IN  IF line = <<>>
             THEN Mut_section_lines(Tail(lines), in_surrender_section, surrender_lines)
             ELSE Mut_section_lines(Tail(lines), in_section,
                                    IF in_section THEN Append(surrender_lines, line)
                                    ELSE surrender_lines)

\* the loop of _extract_surrender_section over the lines left
RECURSIVE section_lines(_, _, _)
section_lines(lines, in_surrender_section, surrender_lines) ==
    IF lines = <<>> THEN surrender_lines
    ELSE LET line == Strip(Head(lines))
             in_section == \/ in_surrender_section
                           \/ ContainsAny(line, {KwSurrenderExample, KwElapsed})
         IN  IF line = <<>>
             THEN section_lines(Tail(lines), in_surrender_section, surrender_lines)
             ELSE IF in_section /\ StartsWith(line, KwSurrender) /\ Contains(line, SectionEndMark)
             THEN surrender_lines
             ELSE section_lines(Tail(lines), in_section,
                                IF in_section THEN Append(surrender_lines, line)
                                ELSE surrender_lines)

\* _extract_surrender_section(text)
extract_surrender_section(text) ==
    Join(section_lines(SplitOn(text, "\n"), FALSE, <<>>), <<"\n">>)

\* amount_patterns of _extract_amounts_from_columns: the group takes the literal in
column_amount_patterns ==
    << [cls |-> DigitComma, lit |-> Won,     multiplier |-> 1],
       [cls |-> DigitComma, lit |-> <<>>,    multiplier |-> 1],
       [cls |-> DigitDot,   lit |-> <<"%">>, multiplier |-> 1] >>

\* the amount of one column: <<>> when no pattern matches and parses
column_amount(col, i) ==
    LET group(p) ==
            LET m == RunSearch(col, column_amount_patterns[p].cls, FALSE,
                               column_amount_patterns[p].lit)[1]
            IN  SubSeq(col, m.from, m.end)
        amount_str(p) == Without(group(p), ",")
        number(p) == IF Contains(amount_str(p), <<"%">>)
                     THEN Without(amount_str(p), "%") ELSE amount_str(p)
        hits == {p \in 1..Len(column_amount_patterns) :
                    /\ RunSearch(col, column_amount_patterns[p].cls, FALSE,
                                 column_amount_patterns[p].lit) # Absent
                    /\ FloatParses(number(p))}
    IN  IF hits = {} THEN <<>>
        ELSE LET p == SetMin(hits)
             IN  << [column      |-> i,
                     text        |-> col,
                     amount_raw  |-> group(p),
                     amount_norm |-> IntOfFloatTimes(number(p),
                                                     column_amount_patterns[p].multiplier),
                     type        |-> IF Contains(amount_str(p), <<"%">>)
                                     THEN "percentage" ELSE "currency"] >>

\* _extract_amounts_from_columns(columns), from column i (counted from 1) on
RECURSIVE amounts_from(_, _)
amounts_from(columns, i) ==
    IF i > Len(columns) THEN <<>>
    ELSE column_amount(columns[i], i - 1) \o amounts_from(columns, i + 1)

extract_amounts_from_columns(columns) == amounts_from(columns, 1)

\* the header keywords of _parse_table_data: 경과기간, 납입보험료, 적립부분환급금,
\* 보장부분환급금, 환급금(합계), 환급률
header_keywords ==
    { KwElapsed, KwPremium,
      <<"jeok", "rip", "bu", "bun">> \o KwRefund,
      <<"bo", "jang", "bu", "bun">> \o KwRefund,
      KwRefund \o <<"(", "hap", "gye", ")">>,
      <<"hwan", "geup", "ryul">> }

header_entry(headers) ==
    [type |-> "header", columns |-> headers, row |-> 0, amounts |-> Absent]

data_entry(current_row, row_count) ==
    [type |-> "data", columns |-> current_row, row |-> row_count,
     amounts |-> <<extract_amounts_from_columns(current_row)>>]

\* a line that starts a data row: ^\d+년 or ^만기
is_row_start(line) ==
    MatchDigitsThen(line, <<"nyeon">>) \/ StartsWith(line, <<"man", "gi">>)

\* a line of numbers: ^\d+[,] or ^\d+\.\d+% or the line 0
is_number_line(line) ==
    MatchDigitsThen(line, <<",">>) \/ MatchDecimalPercent(line) \/ line = <<"0">>

\* a mutant of row_scan: a line that ends the data is skipped and the scan goes on
RECURSIVE Mut_row_scan(_, _, _, _, _)
Mut_row_scan(lines, data_started, current_row, row_count, table_data) ==
    IF lines = <<>> THEN table_data
    ELSE LET line == Strip(Head(lines))
         IN  IF line = <<>>
             THEN Mut_row_scan(Tail(lines), data_started, current_row, row_count, table_data)
             ELSE IF is_row_start(line)
             THEN Mut_row_scan(Tail(lines), TRUE, <<line>>,
                           IF current_row # <<>> THEN row_count + 1 ELSE row_count,
                           IF current_row # <<>>
                           THEN Append(table_data, data_entry(current_row, row_count))
                           ELSE table_data)
             ELSE IF data_started /\ is_number_line(line)
             THEN Mut_row_scan(Tail(lines), data_started, Append(current_row, line),
                           row_count, table_data)
             ELSE Mut_row_scan(Tail(lines), data_started, current_row, row_count, table_data)

\* the row loop of _parse_table_data over the lines left
RECURSIVE row_scan(_, _, _, _, _)
row_scan(lines, data_started, current_row, row_count, table_data) ==
    IF lines = <<>> THEN table_data
    ELSE LET line == Strip(Head(lines))
         IN  IF line = <<>>
             THEN row_scan(Tail(lines), data_started, current_row, row_count, table_data)
             ELSE IF is_row_start(line)
             THEN row_scan(Tail(lines), TRUE, <<line>>,
                           IF current_row # <<>> THEN row_count + 1 ELSE row_count,
                           IF current_row # <<>>
                           THEN Append(table_data, data_entry(current_row, row_count))
                           ELSE table_data)
             ELSE IF data_started /\ is_number_line(line)
             THEN row_scan(Tail(lines), data_started, Append(current_row, line),
                           row_count, table_data)
             ELSE IF data_started
             THEN IF current_row # <<>>
                  THEN Append(table_data, data_entry(current_row, row_count))
                  ELSE table_data
             ELSE row_scan(Tail(lines), data_started, current_row, row_count, table_data)

\* a mutant of parse_table_data: every header line gets a header entry of its own
Mut_parse_table_data(section_text) ==
    LET lines   == SplitOn(section_text, "\n")
        hits    == {i \in 1..Len(lines) : ContainsAny(Strip(lines[i]), header_keywords)}
        headers == [k \in 1..Cardinality(hits) |->
                       header_entry(<<Strip(lines[CHOOSE i \in hits :
                                       Cardinality({j \in hits : j <= i}) = k])>>)]
    IN  IF hits = {} THEN <<>>
        ELSE row_scan(lines, FALSE, <<>>, 0, headers)

\* _parse_table_data(section_text)
parse_table_data(section_text) ==
    LET lines   == SplitOn(section_text, "\n")
        hits    == {i \in 1..Len(lines) : ContainsAny(Strip(lines[i]), header_keywords)}
        headers == [k \in 1..Cardinality(hits) |->
                       Strip(lines[CHOOSE i \in hits :
                                       Cardinality({j \in hits : j <= i}) = k])]
    IN  IF hits = {} THEN <<>>
        ELSE row_scan(lines, FALSE, <<>>, 0, <<header_entry(headers)>>)

\* parse_surrender_value_table(text)
parse_surrender_value_table(text) ==
    LET surrender_section == extract_surrender_section(text)
    IN  IF surrender_section = <<>> THEN <<>> ELSE parse_table_data(surrender_section)

(***************************************************************************)
(* extract_text_from_pdf(file_path, use_ocr) as a state machine.           *)
(***************************************************************************)
VARIABLES
    pc,                  \* the position in extract_text_from_pdf
    file,                \* the PDF: can fitz open it, and its page count
    use_ocr,             \* the argument
    pages,               \* the local pages
    extraction_success,  \* the local extraction_success
    ocr_processor,       \* the PDFOCRProcessor of the enhancement pass
    pre_ocr,             \* pages as they were when the enhancement pass began
    ocr_trace,           \* per page processed by the pass: the decision and the OCR run
    calls,               \* the backends invoked so far, in order
    primary,             \* how step 1 ended: <<>> before it, then whether it raised, whether
                         \* all its pages were blank, and its pages when they were not
    open_handles,        \* the documents fitz.open gave to this call that are still open:
                         \* not closed by doc.close(), not finalised by the interpreter
    result               \* the returned (success, pages)

pipeVars == <<pc, file, use_ocr, pages, extraction_success, ocr_processor,
              pre_ocr, ocr_trace, calls, primary, open_handles, result>>

VARIABLES
    page_lines,          \* the page given to _extract_table_structure: its lines, each the texts of its spans
    table_data,          \* what _extract_table_structure returned: <<>> before the call, <<cells>> after
    get_text_raised,     \* page.get_text raised in that call
    line_text,           \* the line given to _is_table_line
    line_calls,          \* what _is_table_line returned for it, call after call
    table_doc,           \* the document given to parse_surrender_value_table, part by part
    table_text,          \* its text
    table_result         \* what parse_surrender_value_table returned: <<>> before the call, <<entries>> after

VARIABLES
    extractor,           \* the attributes of the PDFTextExtractor object two calls share
    ocr_importable,      \* can parsing.pdf_ocr be imported in this process
    pair_docs,           \* the document of each of the two calls: what the libraries answer for it
    pair_args,           \* the use_ocr argument of each call
    pair_pc,             \* the position of each call in extract_text_from_pdf
    frames,              \* the locals of each call: pages, extraction_success, the loop index
    returned,            \* what each call returned: <<>> before, <<(success, pages)>> after
    turn                 \* the call that made the last step

VARIABLES
    decision_page,       \* the page given to _should_apply_ocr
    decision,            \* what _should_apply_ocr returned: <<>> before the call, <<bool>> after
    split_text,          \* the text given to _split_text_into_pages
    split_pages          \* what _split_text_into_pages returned: <<>> before the call, <<chunks>> after

cellVars  == <<page_lines, table_data, get_text_raised>>
lineVars  == <<line_text, line_calls>>
tableVars == <<table_doc, table_text, table_result>>
pairVars  == <<extractor, ocr_importable, pair_docs, pair_args, pair_pc, frames, returned, turn>>
decideVars == <<decision_page, decision>>
splitVars  == <<split_text, split_pages>>
vars      == <<pipeVars, cellVars, lineVars, tableVars, pairVars, decideVars, splitVars>>

\* what each part of the program leaves alone
pipeForeign   == <<cellVars, lineVars, tableVars, pairVars, decideVars, splitVars>>
cellForeign   == <<pipeVars, lineVars, tableVars, pairVars, decideVars, splitVars>>
lineForeign   == <<pipeVars, cellVars, tableVars, pairVars, decideVars, splitVars>>
tableForeign  == <<pipeVars, cellVars, lineVars, pairVars, decideVars, splitVars>>
pairForeign   == <<pipeVars, cellVars, lineVars, tableVars, decideVars, splitVars>>
decideForeign == <<pipeVars, cellVars, lineVars, tableVars, pairVars, splitVars>>
splitForeign  == <<pipeVars, cellVars, lineVars, tableVars, pairVars, decideVars>>

NoProcessor == [use_paddle |-> FALSE, use_tesseract |-> FALSE, imported |-> FALSE]

PipeInit ==
    /\ pc = "pymupdf"
    /\ file \in [opens : BOOLEAN, page_count : 1..MaxPages]
    /\ use_ocr \in BOOLEAN
    /\ pages = <<>>
    /\ extraction_success = FALSE
    /\ ocr_processor = NoProcessor
    /\ pre_ocr = <<>>
    /\ ocr_trace = <<>>
    /\ calls = <<>>
    /\ primary = Absent
    /\ open_handles = 0
    /\ result = Absent

\* no call of extract_text_from_pdf is under way
PipeIdle ==
    /\ pc = "idle"
    /\ file = [opens |-> FALSE, page_count |-> 1]
    /\ use_ocr = FALSE
    /\ pages = <<>>
    /\ extraction_success = FALSE
    /\ ocr_processor = NoProcessor
    /\ pre_ocr = <<>>
    /\ ocr_trace = <<>>
    /\ calls = <<>>
    /\ primary = Absent
    /\ open_handles = 0
    /\ result = Absent

\* no page, no line and no table text is being worked on
CellsIdle == page_lines = <<>> /\ table_data = Absent /\ get_text_raised = FALSE
LineIdle  == line_text = <<>> /\ line_calls = <<>>
TableIdle ==
    /\ table_doc = [intro |-> <<>>, header |-> <<>>, rows |-> <<>>, trailer |-> <<>>]
    /\ table_text = <<>>
    /\ table_result = Absent

\* line 17: the extractor object holds the layout parameters and nothing else
Extractor == [lap_params |-> "LAParams"]

\* lines 28-29: pages = [], extraction_success = False
NewFrame == [pages |-> <<>>, extraction_success |-> FALSE, i |-> 0]

\* no pair of concurrent calls is under way
PairIdle ==
    /\ extractor = Extractor
    /\ ocr_importable = FALSE
    /\ pair_docs = <<>>
    /\ pair_args = <<>>
    /\ pair_pc = <<>>
    /\ frames = <<>>
    /\ returned = <<>>
    /\ turn = 0

\* no OCR decision and no split of a text is being worked on
DecideIdle == decision_page = empty_page(1) /\ decision = Absent
SplitIdle  == split_text = <<>> /\ split_pages = Absent

\* the parts of the program that the pipeline's own specification leaves idle
RestIdle == PairIdle /\ DecideIdle /\ SplitIdle

Init == PipeInit /\ CellsIdle /\ LineIdle /\ TableIdle /\ RestIdle

\* Step 1, lines 32-40: _extract_with_pymupdf returns one page per page of the document
PymupdfReturns ==
    /\ pc = "pymupdf"
    /\ file.opens
    /\ \E read \in [1..file.page_count -> PrimaryPages] :
         LET got == [i \in 1..file.page_count |-> pymupdf_page(i, read[i][1], read[i][2])]
         IN  /\ pages' = got
             /\ extraction_success' = any_text(got)
             /\ pc' = IF any_text(got) THEN "ocr" ELSE "pdfminer"
             /\ primary' = LET blank == \A i \in 1..Len(got) : Blank(got[i].text)
                            IN  <<[raised |-> FALSE, blank |-> blank,
                                   pages |-> IF blank THEN <<>> ELSE got]>>
    /\ open_handles' = open_handles
    /\ calls' = Append(calls, "pymupdf")
    /\ UNCHANGED <<file, use_ocr, ocr_processor, pre_ocr, ocr_trace, result>>
    /\ UNCHANGED pipeForeign

\* Step 1, lines 39-40: fitz.open raises, or a page of the document raises after
\* it; then doc.close() of line 116 is not reached and the document stays open
PymupdfRaises ==
    /\ pc = "pymupdf"
    /\ pc' = "pdfminer"
    /\ primary' = <<[raised |-> TRUE, blank |-> FALSE, pages |-> <<>>]>>
    /\ open_handles' = open_handles + (IF file.opens THEN 1 ELSE 0)
    /\ calls' = Append(calls, "pymupdf")
    /\ UNCHANGED <<file, use_ocr, pages, extraction_success, ocr_processor,
                   pre_ocr, ocr_trace, result>>
    /\ UNCHANGED pipeForeign

\* Step 2, lines 43-50: _extract_with_pdfminer returns the chunks of the text
PdfminerReturns ==
    /\ pc = "pdfminer"
    /\ ~extraction_success
    /\ \E full_text \in FallbackTexts(file.page_count) :
         LET got == extract_with_pdfminer(full_text)
         IN  /\ pages' = got
             /\ extraction_success' = any_text(got)
    /\ pc' = "ocr"
    /\ calls' = Append(calls, "pdfminer")
    /\ UNCHANGED <<file, use_ocr, ocr_processor, pre_ocr, ocr_trace, result>>
    /\ UNCHANGED <<primary, open_handles>>
    /\ UNCHANGED pipeForeign

\* Step 2, lines 51-52: extract_text raises
PdfminerRaises ==
    /\ pc = "pdfminer"
    /\ ~extraction_success
    /\ pc' = "ocr"
    /\ calls' = Append(calls, "pdfminer")
    /\ UNCHANGED <<file, use_ocr, pages, extraction_success, ocr_processor,
                   pre_ocr, ocr_trace, result>>
    /\ UNCHANGED <<primary, open_handles>>
    /\ UNCHANGED pipeForeign

\* line 55: use_ocr is false
SkipOcr ==
    /\ pc = "ocr"
    /\ ~use_ocr
    /\ pc' = "finish"
    /\ UNCHANGED <<file, use_ocr, pages, extraction_success, ocr_processor,
                   pre_ocr, ocr_trace, calls, result>>
    /\ UNCHANGED <<primary, open_handles>>
    /\ UNCHANGED pipeForeign

\* what follows the return of _apply_ocr_enhancement, lines 58-61
after_enhancement(enhanced_pages) ==
    /\ pages' = enhanced_pages
    /\ extraction_success' = IF enhanced_pages # <<>> THEN TRUE ELSE extraction_success
    /\ pc' = "finish"

\* lines 211-216: the OCR module cannot be imported, the pages come back as they are
OcrImportFails ==
    /\ pc = "ocr"
    /\ use_ocr
    /\ after_enhancement(pages)
    /\ pre_ocr' = pages
    /\ calls' = Append(calls, "ocr")
    /\ UNCHANGED <<file, use_ocr, ocr_processor, ocr_trace, result>>
    /\ UNCHANGED <<primary, open_handles>>
    /\ UNCHANGED pipeForeign

\* lines 212-218: PDFOCRProcessor() is built with the engines it could initialise
OcrBegin ==
    /\ pc = "ocr"
    /\ use_ocr
    /\ \E p \in BOOLEAN, t \in BOOLEAN :
         ocr_processor' = [use_paddle |-> p, use_tesseract |-> t, imported |-> TRUE]
    /\ pre_ocr' = pages
    /\ pc' = "ocr_loop"
    /\ calls' = Append(calls, "ocr")
    /\ UNCHANGED <<file, use_ocr, pages, extraction_success, ocr_trace, result>>
    /\ UNCHANGED <<primary, open_handles>>
    /\ UNCHANGED pipeForeign

\* lines 220-261: the next page of the loop
OcrEnhancePage ==
    /\ pc = "ocr_loop"
    /\ Len(ocr_trace) < Len(pages)
    /\ LET i    == Len(ocr_trace) + 1
           page == pages[i]
           should_use_ocr == should_apply_ocr(page, Strip(page.text))
           runs == IF should_use_ocr
                   THEN ocr_page_runs(file, page.page_number, ocr_processor)
                   ELSE {[ret |-> Absent, engines |-> <<>>, opened |-> FALSE, closed |-> FALSE]}
       IN  \E run \in runs :
             /\ open_handles' = open_handles + (IF run.opened /\ ~run.closed THEN 1 ELSE 0)
             /\ pages' = [pages EXCEPT ![i] = ocr_enhance_page(page, should_use_ocr, run.ret)]
             /\ ocr_trace' = Append(ocr_trace,
                    [called |-> should_use_ocr, ret |-> run.ret, engines |-> run.engines])
    /\ UNCHANGED <<pc, file, use_ocr, extraction_success, ocr_processor, pre_ocr,
                   calls, result>>
    /\ UNCHANGED primary
    /\ UNCHANGED pipeForeign

\* lines 263-267 and 58-61: the loop is over, the enhanced pages are returned
OcrEnd ==
    /\ pc = "ocr_loop"
    /\ Len(ocr_trace) = Len(pages)
    /\ after_enhancement(pages)
    /\ UNCHANGED <<file, use_ocr, ocr_processor, pre_ocr, ocr_trace, calls, result>>
    /\ UNCHANGED <<primary, open_handles>>
    /\ UNCHANGED pipeForeign

\* lines 66-69; _create_empty_pages opens the document and closes it (lines
\* 187-189).  The documents left open by a raise are closed by no statement of
\* the code: each stays open until the interpreter finalises the object, which
\* may have happened by the time the call returns, or not.
Return ==
    /\ pc = "finish"
    /\ \E finalised \in BOOLEAN :
         open_handles' = IF finalised THEN 0 ELSE open_handles
    /\ LET final == IF pages = <<>> THEN create_empty_pages(file) ELSE pages
       IN  /\ pages' = final
           /\ result' = <<[success |-> extraction_success, pages |-> final]>>
    /\ calls' = IF pages = <<>> THEN Append(calls, "empty_pages") ELSE calls
    /\ pc' = "returned"
    /\ UNCHANGED <<file, use_ocr, extraction_success, ocr_processor, pre_ocr, ocr_trace>>
    /\ UNCHANGED primary
    /\ UNCHANGED pipeForeign

PipeNext ==
    \/ PymupdfReturns \/ PymupdfRaises
    \/ PdfminerReturns \/ PdfminerRaises
    \/ SkipOcr \/ OcrImportFails \/ OcrBegin \/ OcrEnhancePage \/ OcrEnd
    \/ Return

Spec == Init /\ [][PipeNext]_vars

(***************************************************************************)
(* Claims about extract_text_from_pdf.                                     *)
(***************************************************************************)
Returned == pc = "returned"

\* the trust rule of the OCR decision applies to the page
Trusted(page) ==
    Get(page.text_objects_count, 0) > 0 /\ Get(page.cid_to_unicode_failure_rate, 0) = 0

\* page i was sent to OCR and OCR returned non-empty text
OcrMerged(i) ==
    /\ ocr_trace[i].called
    /\ ocr_trace[i].ret # Absent
    /\ ocr_trace[i].ret[1].ocr_text # <<>>

\* C1: whenever extract_text_from_pdf has returned for a document that can be
\* opened, the number of returned pages is the page count of the document,
\* whatever the backends did and whatever the success flag.
C1_PageCountPreserved ==
    (Returned /\ file.opens) => Len(result[1].pages) = file.page_count

\* C2: the returned success flag is true iff some returned page has text.  The
\* spec words "has text" both as non-empty and as non-whitespace; stated here is
\* what both readings share: success implies a page with non-empty text, and a
\* page with non-whitespace text implies success.
C2_SuccessIffText ==
    Returned =>
        LET ps == result[1].pages
        IN  /\ result[1].success => \E i \in 1..Len(ps) : ps[i].text # <<>>
            /\ (\E i \in 1..Len(ps) : Strip(ps[i].text) # <<>>) => result[1].success

\* C3: a page with at least one structured span and a decode-failure rate of zero
\* is never sent to OCR; once the pass has processed it, has_ocr is false, its
\* text is unchanged and its extraction_method is still that of the primary
\* backend.  (Before the loop reaches it, and when the OCR module cannot be
\* imported, has_ocr is not set at all.)
C3_TrustedPageNeverOcred ==
    \A i \in 1..Len(pre_ocr) :
        Trusted(pre_ocr[i]) =>
            /\ pages[i].text = pre_ocr[i].text
            /\ pages[i].extraction_method = "pymupdf"
            /\ pages[i].has_ocr # <<TRUE>>
            /\ i <= Len(ocr_trace) =>
                   /\ ~ocr_trace[i].called
                   /\ ocr_trace[i].engines = <<>>
                   /\ pages[i].has_ocr = <<FALSE>>

\* C3 witness: the pass has processed a trusted page whose text holds a table
\* keyword and a trusted page whose text is empty.
C3_Witness ==
    /\ Returned
    /\ \E i \in 1..Len(ocr_trace) :
          Trusted(pre_ocr[i]) /\ Contains(pre_ocr[i].text, KwRefund)
          /\ pages[i].has_ocr = <<FALSE>>
    /\ \E j \in 1..Len(ocr_trace) :
          Trusted(pre_ocr[j]) /\ pre_ocr[j].text = <<>> /\ pages[j].has_ocr = <<FALSE>>

MaxNumLen == 4

\* the numbers of the span texts: up to MaxNumLen characters
NumberChars == {"0", "1", "5", ",", "."}
Numbers     == UNION {[1..n -> NumberChars] : n \in 0..MaxNumLen}
Units       == {<<>>, Won, CheonWon, ManWon, EokWon}

\* 1,000천원, 100만원, 1.5억원, 85,804원
ExampleSpans ==
    { <<"1", ",", "0", "0", "0">> \o CheonWon,
      <<"1", "0", "0">> \o ManWon,
      <<"1", ".", "5">> \o EokWon,
      <<"8", "5", ",", "8", "0", "4">> \o Won }

\* the number of decimal digits of n, n at least 1
DecLen(n) == CHOOSE d \in 1..10 : (n \div Pow10(d - 1)) \in 1..9

\* every amount the text can give fits the integers of the model: a number before
\* a unit has, with the zeros of the unit, at most nine digits before its point
Representable(text) ==
    \A p \in 1..Len(amount_norm_patterns) : \A i \in 1..Len(text) : \A j \in i..Len(text) :
        LET pat == amount_norm_patterns[p]
        IN  (ClassRun(text, pat.cls, i, j) /\ Gaps(text, TRUE, pat.lit, j) # {})
            => Len(IntDigits(Without(SubSeq(text, i, j), ","))) + DecLen(pat.multiplier) <= 10

SpanTexts ==
    {t \in {n \o u : n \in Numbers, u \in Units} \cup ExampleSpans : Representable(t)}

\* the spans that come before the span on its line: none, or a year
LeadSpans == { <<>>, << <<"1", "nyeon">> >> }

CellsInit ==
    /\ page_lines \in {<<lead \o <<t>>>> : lead \in LeadSpans, t \in SpanTexts}
    /\ table_data = Absent
    /\ get_text_raised = FALSE

\* lines 367-424: the cells of the page are returned, or [] after an exception
\* in the building of a cell
ExtractTableStructure ==
    /\ table_data = Absent
    /\ table_data' = <<extract_table_structure(page_lines, 1)>>
    /\ UNCHANGED <<page_lines, get_text_raised>>
    /\ UNCHANGED cellForeign

\* lines 369 and 426-428: page.get_text raises, [] is returned
ExtractTableStructureRaises ==
    /\ table_data = Absent
    /\ table_data' = << <<>> >>
    /\ get_text_raised' = TRUE
    /\ UNCHANGED page_lines
    /\ UNCHANGED cellForeign

CellsNext == ExtractTableStructure \/ ExtractTableStructureRaises

InitAmount == PipeIdle /\ CellsInit /\ LineIdle /\ TableIdle /\ RestIdle

SpecAmount == InitAmount /\ [][CellsNext]_vars

(***************************************************************************)
(* Claims about the amounts of a cell.                                     *)
(***************************************************************************)
\* the cells that _extract_table_structure returned
Cells == IF table_data = Absent THEN {} ELSE {table_data[1][i] : i \in 1..Len(table_data[1])}

\* digits with thousands separators between them
IsCommaInteger(n) ==
    /\ n # <<>>
    /\ \A i \in 1..Len(n) : n[i] \in DigitComma
    /\ n[1] \in Digits /\ n[Len(n)] \in Digits
    /\ \A i \in 1..(Len(n) - 1) : ~(n[i] = "," /\ n[i + 1] = ",")

\* digits, a point, digits
IsDecimal(n) ==
    \E k \in 2..(Len(n) - 1) :
        /\ n[k] = "."
        /\ \A i \in (1..Len(n)) \ {k} : n[i] \in Digits

AmountUnits == <<Won, CheonWon, ManWon, EokWon>>
UnitMultiplier(u) ==
    IF u = Won THEN 1 ELSE IF u = CheonWon THEN 1000 ELSE IF u = ManWon THEN 10000 ELSE 100000000

\* the text is one amount token: a number with thousands separators before 원,
\* 천원, 만원 or 억원, or a decimal number before 억원
TokenUnit(text) ==
    CHOOSE u \in {AmountUnits[k] : k \in 1..4} :
        /\ Len(text) > Len(u)
        /\ SubSeq(text, Len(text) - Len(u) + 1, Len(text)) = u
        /\ text[Len(text) - Len(u)] \in Digits
TokenNumber(text) == SubSeq(text, 1, Len(text) - Len(TokenUnit(text)))
IsAmountToken(text) ==
    /\ \E k \in 1..4 :
          /\ Len(text) > Len(AmountUnits[k])
          /\ SubSeq(text, Len(text) - Len(AmountUnits[k]) + 1, Len(text)) = AmountUnits[k]
          /\ text[Len(text) - Len(AmountUnits[k])] \in Digits
    /\ \/ IsCommaInteger(TokenNumber(text))
       \/ TokenUnit(text) = EokWon /\ IsDecimal(TokenNumber(text))
    /\ Len(IntDigits(Without(TokenNumber(text), ","))) + DecLen(UnitMultiplier(TokenUnit(text))) <= 10

\* the token's number times its unit multiplier, in exact decimal arithmetic
TokenWon(text) ==
    LET n    == Without(TokenNumber(text), ",")
        mult == UnitMultiplier(TokenUnit(text))
    IN  DecimalValue(IntDigits(n)) * mult
        + DecimalValue(FracDigits(n)) * (mult \div Pow10(Len(FracDigits(n))))

C6_NormNonZeroHasRaw ==
    \A c \in Cells : c.amount_norm_krw # 0 => c.amount_raw # <<>>

\* C6 witness: a cell whose normalized amount comes from the 만원 pattern.
C6_Witness ==
    \E c \in Cells :
        /\ c.amount_norm_krw # 0
        /\ Contains(c.text_raw, ManWon)
        /\ c.amount_raw # <<>>

\* C7: for a span text that is one amount token, the normalized amount is the
\* token's number times its unit multiplier (원 1, 천원 1000, 만원 10000,
\* 억원 100000000), the thousands separators ignored.
C7_TokenTimesMultiplier ==
    \A c \in Cells : IsAmountToken(c.text_raw) => c.amount_norm_krw = TokenWon(c.text_raw)

(***************************************************************************)
(* _is_table_line(line_text) as a state machine: the classifier is called  *)
(* on one line, time after time.                                           *)
(***************************************************************************)
MaxCalls == 2

\* what a line is made of: 1,0원  2원  1년  37세  29.8%  ,%  환급금  적립부분  년  a
LineFragments ==
    << <<"1", ",", "0", "won">>, <<"2", "won">>, <<"1", "nyeon">>, <<"3", "7", "se">>,
       <<"2", "9", ".", "8", "%">>, <<",", "%">>, KwRefund, <<"jeok", "rip", "bu", "bun">>,
       <<"nyeon">>, <<"a">> >>

\* the fragments numbered from k on that are in the set, each followed by a blank
RECURSIVE LineOf(_, _)
LineOf(chosen, k) ==
    IF k > Len(LineFragments) THEN <<>>
    ELSE (IF k \in chosen THEN LineFragments[k] \o <<" ">> ELSE <<>>) \o LineOf(chosen, k + 1)

LineInit ==
    /\ line_text \in {LineOf(chosen, 1) : chosen \in SUBSET (1..Len(LineFragments))}
    /\ line_calls = <<>>

\* lines 430-447
ClassifyLine ==
    /\ Len(line_calls) < MaxCalls
    /\ line_calls' = Append(line_calls, is_table_line(line_text))
    /\ UNCHANGED line_text
    /\ UNCHANGED lineForeign

InitLine == PipeIdle /\ CellsIdle /\ LineInit /\ TableIdle /\ RestIdle

SpecLine == InitLine /\ [][ClassifyLine]_vars

(***************************************************************************)
(* Claims about the table-line classifier.                                 *)
(***************************************************************************)
\* a character of the class stands right before the unit somewhere in the line
UnitAfter(line, cls, unit) ==
    \E i \in 1..(Len(line) - 1) : line[i] \in cls /\ line[i + 1] = unit

\* how many of: an amount in 원, N년, N세, a percentage, the line holds
NumericKinds(line) ==
    Cardinality({k \in 1..4 :
        \/ k = 1 /\ UnitAfter(line, DigitComma, "won")
        \/ k = 2 /\ UnitAfter(line, Digits, "nyeon")
        \/ k = 3 /\ UnitAfter(line, Digits, "se")
        \/ k = 4 /\ UnitAfter(line, DigitComma, "%")})

HasSurrenderKeyword(line) ==
    \/ Contains(line, KwRefund)
    \/ Contains(line, KwElapsed)
    \/ Contains(line, KwPremium)
    \/ Contains(line, <<"jeok", "rip", "bu", "bun">>)
    \/ Contains(line, <<"bo", "jang", "bu", "bun">>)

\* C8: every call of the classifier on a line returns true if the line holds one
\* of the six keywords, and otherwise true exactly when at least two of the four
\* numeric patterns are found in the line; so every call on the same line
\* returns the same boolean.
C8_ClassifierByKeywordOrTwoPatterns ==
    \A k \in 1..Len(line_calls) :
        line_calls[k] = (HasSurrenderKeyword(line_text) \/ NumericKinds(line_text) >= 2)

\* C8 witness: the classifier was called twice on a line without a keyword that
\* holds exactly two of the numeric patterns, and said true.
C8_Witness ==
    /\ Len(line_calls) = MaxCalls
    /\ ~HasSurrenderKeyword(line_text)
    /\ NumericKinds(line_text) = 2
    /\ line_calls[1]

(***************************************************************************)
(* parse_surrender_value_table(text) as a state machine.                   *)
(***************************************************************************)
MaxRows == 2

\* the data rows: each the lines of the row
\*   1년 / 1,0 / 29.8%      2년(38세)  1,0  0  29.8% on one line
\*   만기 / 0               3년 / 5,1 / 0.0%
TableRows ==
    { << <<"1", "nyeon">>, <<"1", ",", "0">>, <<"2", "9", ".", "8", "%">> >>,
      << <<"2", "nyeon", "(", "3", "8", "se", ")", " ", " ", "1", ",", "0", " ", " ", "0",
           " ", " ", "2", "9", ".", "8", "%">> >>,
      << <<"man", "gi">>, <<"0">> >>,
      << <<"3", "nyeon">>, <<"5", ",", "1">>, <<"0", ".", "0", "%">> >> }

\* the lines before the header: none, prose, 해약환급금 예시, or a row 9년 / 9,9
TableIntros ==
    { <<>>, << <<"a">> >>, <<KwSurrenderExample>>, << <<"9", "nyeon">>, <<"9", ",", "9">> >> }

\* the header: none, the line 경과기간  납입보험료  환급률, or the two lines
\* 경과기간 and 환급금(합계)
TableHeaders ==
    { <<>>,
      << KwElapsed \o <<" ", " ">> \o KwPremium \o <<" ", " ">> \o <<"hwan", "geup", "ryul">> >>,
      << KwElapsed, KwRefund \o <<"(", "hap", "gye", ")">> >> }

\* the lines after the rows: none, prose, the line 해약환급금 ① a, that line and
\* a row 8년 / 8,8 after it, or prose and a row 7년 / 7,7 after it
TableTrailers ==
    { <<>>, << <<"a">> >>, << KwSurrender \o <<" ">> \o SectionEndMark \o <<" ", "a">> >>,
      << KwSurrender \o <<" ">> \o SectionEndMark \o <<" ", "a">>,
         <<"8", "nyeon">>, <<"8", ",", "8">> >>,
      << <<"a">>, <<"7", "nyeon">>, <<"7", ",", "7">> >> }

RECURSIVE Flatten(_)
Flatten(rows) == IF rows = <<>> THEN <<>> ELSE Head(rows) \o Flatten(Tail(rows))

\* the text of a document: its lines, a newline between them
TextOf(doc) == Join(doc.intro \o doc.header \o Flatten(doc.rows) \o doc.trailer, <<"\n">>)

TableInit ==
    /\ table_doc \in [intro   : TableIntros,
                      header  : TableHeaders,
                      rows    : UNION {[1..k -> TableRows] : k \in 0..MaxRows},
                      trailer : TableTrailers]
    /\ table_text = TextOf(table_doc)
    /\ table_result = Absent

\* lines 18-32
ParseSurrenderValueTable ==
    /\ table_result = Absent
    /\ table_result' = <<parse_surrender_value_table(table_text)>>
    /\ UNCHANGED <<table_doc, table_text>>
    /\ UNCHANGED tableForeign

InitTable == PipeIdle /\ CellsIdle /\ LineIdle /\ TableInit /\ RestIdle

SpecTable == InitTable /\ [][ParseSurrenderValueTable]_vars

(***************************************************************************)
(* Claims about the surrender-value parser.                                *)
(***************************************************************************)
\* the entries that the parser returned
Entries == table_result[1]

\* C9: for a text of a header line followed by k data rows, the parser returns
\* one header entry and then the k data rows, in document order, also when the
\* text ends right after the last row.
C9_HeaderAndEveryRow ==
    (table_result # Absent /\ table_doc.header # <<>>) =>
        /\ Len(Entries) = 1 + Len(table_doc.rows)
        /\ Entries[1].type = "header"
        /\ \A i \in 1..Len(table_doc.rows) :
              /\ Entries[i + 1].type = "data"
              /\ Entries[i + 1].columns = table_doc.rows[i]

\* a column line that is a number with thousands separators, or a decimal percentage
IsDecimalPercent(col) ==
    /\ Len(col) >= 4
    /\ col[Len(col)] = "%"
    /\ IsDecimal(SubSeq(col, 1, Len(col) - 1))

\* C10: in every data entry returned, each column line that is a comma-grouped
\* number has an amount record of type currency whose amount_norm is that
\* integer, and each column line that is a decimal percentage has an amount
\* record of type percentage that carries the percentage.
C10_ColumnsKeepValueAndKind ==
    table_result # Absent =>
        \A e \in 1..Len(Entries) : Entries[e].type = "data" =>
            \A c \in 2..Len(Entries[e].columns) :
                LET col     == Entries[e].columns[c]
                    amounts == Entries[e].amounts[1]
                    mine    == {a \in 1..Len(amounts) : amounts[a].column = c - 1}
                IN  /\ IsCommaInteger(col) =>
                          \E a \in mine :
                              /\ amounts[a].type = "currency"
                              /\ amounts[a].amount_norm = DecimalValue(Without(col, ","))
                    /\ IsDecimalPercent(col) =>
                          \E a \in mine :
                              /\ amounts[a].type = "percentage"
                              /\ amounts[a].amount_raw = col

\* C11: the returned list holds at most one header entry; when it is not empty
\* the header entry comes first and the data entries follow it, the rows of the
\* text in their order; without a header line nothing is returned.
C11_OneHeaderThenRowsInOrder ==
    table_result # Absent =>
        /\ Cardinality({i \in 1..Len(Entries) : Entries[i].type = "header"}) <= 1
        /\ Entries # <<>> => Entries[1].type = "header"
        /\ \A i \in 2..Len(Entries) :
              /\ Entries[i].type = "data"
              /\ i - 1 <= Len(table_doc.rows)
              /\ Entries[i].columns = table_doc.rows[i - 1]
              /\ Entries[i].row = i - 2
        /\ table_doc.header = <<>> => Entries = <<>>

\* C11 witness: a text with two header lines and two data rows was parsed into a
\* header entry and two data entries.
C11_Witness ==
    /\ table_result # Absent
    /\ Len(table_doc.header) = 2
    /\ Len(Entries) = 3

\* the text holds a start marker of the section: 해약환급금 예시 or 경과기간
HasStartMarker(doc) == doc.intro = <<KwSurrenderExample>> \/ doc.header # <<>>

\* C15: for a text with a start marker and no data row (no line that starts with
\* N년 or 만기), the parser returns the empty list, as for a text without table.
C15_NoRowsNoResult ==
    (table_result # Absent /\ HasStartMarker(table_doc) /\ table_doc.rows = <<>>)
        => Entries = <<>>

(***************************************************************************)
(* Further claims about extract_text_from_pdf.                             *)
(***************************************************************************)
Invoked(backend) == \E k \in 1..Len(calls) : calls[k] = backend

\* the primary backend returned, and no page of it has text other than whitespace
PrimaryBlank == primary # Absent /\ primary[1].blank

\* the primary backend returned, and some page of it has text other than whitespace
PrimaryHasText == primary # Absent /\ ~primary[1].raised /\ ~primary[1].blank

\* C12: the fallback backend is invoked only after the primary backend has
\* finished, and only if the primary backend raised or gave empty or
\* whitespace-only text for every page.  When the primary backend gives
\* non-whitespace text on some page the fallback backend is never invoked, the
\* pages that enter step 3 are the primary backend's, and each returned page is
\* the primary backend's page, as the OCR pass left it where the pass reached it.
C12_FallbackOnlyAfterPrimaryFailed ==
    /\ Invoked("pdfminer") =>
          /\ primary # Absent
          /\ Len(calls) >= 2 /\ calls[1] = "pymupdf" /\ calls[2] = "pdfminer"
          /\ primary[1].raised \/ PrimaryBlank
    /\ PrimaryHasText =>
          /\ ~Invoked("pdfminer")
          /\ pc = "ocr" => pages = primary[1].pages
          /\ Invoked("ocr") => pre_ocr = primary[1].pages
          /\ Returned =>
                /\ Len(result[1].pages) = Len(primary[1].pages)
                /\ \A i \in 1..Len(result[1].pages) :
                      result[1].pages[i] =
                          IF i <= Len(ocr_trace)
                          THEN ocr_enhance_page(primary[1].pages[i], ocr_trace[i].called,
                                                ocr_trace[i].ret)
                          ELSE primary[1].pages[i]

\* C12, its case: the primary backend returned pages without text, the fallback
\* backend was invoked after it and the call has returned
C12_Witness == Returned /\ PrimaryBlank /\ Invoked("pdfminer")

\* both backends failed: the primary backend raised or gave no page with text
\* other than whitespace, the fallback backend was invoked, and (OCR being off,
\* the returned pages are what the backends left) no returned page has text
\* other than whitespace
BothBackendsFailed ==
    /\ primary # Absent
    /\ primary[1].raised \/ PrimaryBlank
    /\ Invoked("pdfminer")
    /\ ~use_ocr
    /\ Returned
    /\ \A i \in 1..Len(result[1].pages) : Blank(result[1].pages[i].text)

\* C13: when both backends fail, pages are still returned, every returned page
\* has text "" and extraction_method "failed", and there are as many pages as
\* the document has when it can be opened, one otherwise.
C13_BothFailGivesFailedPages ==
    BothBackendsFailed =>
        /\ result[1].pages # <<>>
        /\ \A i \in 1..Len(result[1].pages) :
              /\ result[1].pages[i].text = <<>>
              /\ result[1].pages[i].extraction_method = "failed"
        /\ Len(result[1].pages) = IF file.opens THEN file.page_count ELSE 1

\* the OCR call of page i was made and gave nothing: it raised or no engine
\* gave a result (None), or the result holds no recognised text
OcrFailed(i) ==
    /\ ocr_trace[i].called
    /\ ocr_trace[i].ret = Absent \/ ocr_trace[i].ret[1].ocr_text = <<>>

\* C14: a page whose OCR call raised or returned nothing keeps its pre-OCR text
\* and extraction_method and gets has_ocr = false; the pass goes on: once it is
\* over every page has been considered, and at every moment each page the loop
\* has reached is what its own pre-OCR page and its own OCR result make it,
\* each page the loop has not reached is still its pre-OCR page.  (When the pass
\* had no page to work on, the pages returned are those of _create_empty_pages.)
C14_PageOcrFailureIsLocal ==
    (ocr_processor.imported /\ ~Invoked("empty_pages")) =>
        /\ Len(pages) = Len(pre_ocr)
        /\ Len(ocr_trace) <= Len(pages)
        /\ \A i \in 1..Len(ocr_trace) :
              /\ OcrFailed(i) =>
                    /\ pages[i].text = pre_ocr[i].text
                    /\ pages[i].extraction_method = pre_ocr[i].extraction_method
                    /\ pages[i].has_ocr = <<FALSE>>
              /\ pages[i] = ocr_enhance_page(pre_ocr[i], ocr_trace[i].called, ocr_trace[i].ret)
        /\ \A i \in (Len(ocr_trace) + 1)..Len(pages) : pages[i] = pre_ocr[i]
        /\ pc \in {"finish", "returned"} => Len(ocr_trace) = Len(pre_ocr)

\* C14, its case: the OCR call of page 1 gave nothing, the pass went on and
\* merged the OCR text of page 2
C14_Witness ==
    /\ Returned
    /\ Len(ocr_trace) = 2
    /\ OcrFailed(1)
    /\ OcrMerged(2)
    /\ pages[1].text = pre_ocr[1].text

\* the engines that _ocr_page ran for page i, and what the primary engine gave
PrimaryRan(i)  == \E k \in 1..Len(ocr_trace[i].engines) : ocr_trace[i].engines[k] = "paddle"
FallbackRan(i) == \E k \in 1..Len(ocr_trace[i].engines) : ocr_trace[i].engines[k] = "tesseract"

\* the result of _ocr_page for page i is the primary engine's
PrimaryResult(i) ==
    /\ PrimaryRan(i)
    /\ ocr_trace[i].ret # Absent
    /\ ocr_trace[i].ret[1].ocr_method = "paddle"

PrimaryGaveText(i) == PrimaryResult(i) /\ ocr_trace[i].ret[1].ocr_text # <<>>

\* the primary engine ran and gave no result, or a result without any text
PrimaryGaveNothing(i) == PrimaryRan(i) /\ ~PrimaryGaveText(i)

\* C18: for every page sent to the OCR backend the primary engine, when
\* available, is the first to run; the fallback engine runs only if the primary
\* engine is unavailable or gave nothing, never when it gave text; and, when the
\* fallback engine is available, it does run once the primary engine has given
\* nothing (no result, or no text left after the confidence cutoff).
C18_FallbackEngineIffPrimaryNothing ==
    \A i \in 1..Len(ocr_trace) :
        ocr_trace[i].called =>
            /\ (ocr_processor.use_paddle /\ ocr_trace[i].engines # <<>>) =>
                   ocr_trace[i].engines[1] = "paddle"
            /\ FallbackRan(i) => (~ocr_processor.use_paddle \/ PrimaryGaveNothing(i))
            /\ PrimaryGaveText(i) => ~FallbackRan(i)
            /\ (PrimaryGaveNothing(i) /\ ocr_processor.use_tesseract) => FallbackRan(i)

\* C20: every document opened during one call of extract_text_from_pdf (by the
\* primary backend, by the page count of _create_empty_pages, by each _ocr_page)
\* is closed before the call returns, on every path.
C20_HandlesClosedAtReturn == Returned => open_handles = 0

(***************************************************************************)
(* Further claims about _extract_table_structure.                          *)
(***************************************************************************)
\* _extract_table_structure has returned for a page whose spans it could read
CellsBuilt == table_data # Absent /\ ~get_text_raised

\* the number of non-blank spans on the lines before line l
RECURSIVE SpansBefore(_)
SpansBefore(l) ==
    IF l = 1 THEN 0 ELSE SpansBefore(l - 1) + Len(line_spans(page_lines[l - 1]))

\* line l of the page is tabular
TabularLine(l) == is_table_line(line_text_of(line_spans(page_lines[l])))

\* C16: the builder emits one cell per non-blank span of the page, in span
\* order, with text_raw the span text; a span of a tabular line gets col its
\* index on the line, a span of another line col 0; no span is dropped, whatever
\* the amounts in the span texts.
C16_OneCellPerSpan ==
    CellsBuilt =>
        LET cells == table_data[1]
        IN  /\ Len(cells) = SpansBefore(Len(page_lines) + 1)
            /\ \A l \in 1..Len(page_lines) :
                 LET kept == line_spans(page_lines[l])
                 IN  \A i \in 1..Len(kept) :
                        /\ cells[SpansBefore(l) + i].text_raw = kept[i]
                        /\ cells[SpansBefore(l) + i].col = IF TabularLine(l) THEN i - 1 ELSE 0

\* C17: row counts the tabular lines of the page: the cells of one tabular line
\* carry the same row, and from one tabular line to the next one row grows by one.
C17_RowCountsTabularLines ==
    (CellsBuilt /\ Len(table_data[1]) = SpansBefore(Len(page_lines) + 1)) =>
        LET cells    == table_data[1]
            tabular  == {l \in 1..Len(page_lines) :
                            TabularLine(l) /\ line_spans(page_lines[l]) # <<>>}
            RowOf(l) == cells[SpansBefore(l) + 1].row
        IN  /\ \A l \in tabular : \A i \in 1..Len(line_spans(page_lines[l])) :
                  cells[SpansBefore(l) + i].row = RowOf(l)
            /\ \A l, m \in tabular :
                  (l < m /\ \A k \in (l + 1)..(m - 1) : k \notin tabular)
                      => RowOf(m) = RowOf(l) + 1

(***************************************************************************)
(* Two calls of extract_text_from_pdf on one extractor object, their steps *)
(* interleaved.  Each document has one page and fixed answers from the     *)
(* libraries, so that a call run alone has one result.                     *)
(***************************************************************************)
Invocations == {1, 2}

\* the documents: can fitz open it; the page as PyMuPDF reads it (<<>> when a
\* page raises); the text pdfminer extracts (<<>> when it raises); what _ocr_page
\* returns for page 1
PairDocs ==
    { [opens |-> TRUE,  primary |-> <<LongProse, 1>>, fallback |-> <<<<"a", "\n", "\f">>>>,
       ocr |-> Absent],
      [opens |-> TRUE,  primary |-> << <<>>, 0 >>, fallback |-> <<<<"\f">>>>,
       ocr |-> <<[ocr_text |-> <<"b", "b">>, ocr_method |-> "paddle", ocr_confidence |-> "high"]>>],
      [opens |-> TRUE,  primary |-> Absent, fallback |-> <<<<"a", "\n", "\f">>>>,
       ocr |-> <<[ocr_text |-> <<"c", "c">>, ocr_method |-> "tesseract", ocr_confidence |-> "medium"]>>],
      [opens |-> FALSE, primary |-> Absent, fallback |-> Absent, ocr |-> Absent] }

\* _ocr_page(file_path, page_number) for the document
ocr_page_of(d, page_number) == IF page_number = 1 THEN d.ocr ELSE Absent

\* a mutant of frame_of: the locals are kept in one place for both calls, as
\* attributes of the extractor object would be
Mut_frame_of(k) == 1

\* where the locals of call k live: each call of the method has its own frame
frame_of(k) == k

PairInit ==
    /\ extractor = Extractor
    /\ ocr_importable \in BOOLEAN
    /\ pair_docs \in {d \in [Invocations -> PairDocs] : d[1] # d[2]}
    /\ pair_args \in [Invocations -> BOOLEAN]
    /\ pair_pc = [k \in Invocations |-> "pymupdf"]
    /\ frames = [k \in Invocations |-> NewFrame]
    /\ returned = [k \in Invocations |-> Absent]
    /\ turn = 0

\* the step of call k that moves it to position to
PairStep(k, to) ==
    /\ pair_pc' = [pair_pc EXCEPT ![k] = to]
    /\ turn' = k
    /\ UNCHANGED <<extractor, ocr_importable, pair_docs, pair_args>>
    /\ UNCHANGED pairForeign

\* Step 1, lines 32-40
PairPymupdf(k) ==
    /\ pair_pc[k] = "pymupdf"
    /\ LET d == pair_docs[k]
           got == <<pymupdf_page(1, d.primary[1], d.primary[2])>>
       IN  frames' = IF d.primary = Absent THEN frames
                     ELSE [frames EXCEPT ![frame_of(k)].pages = got,
                                         ![frame_of(k)].extraction_success =
                                             IF any_text(got) THEN TRUE ELSE @]
    /\ UNCHANGED returned
    /\ PairStep(k, "pdfminer")

\* Step 2, lines 43-52; extract_text is given self.lap_params
PairPdfminer(k) ==
    /\ pair_pc[k] = "pdfminer"
    /\ extractor.lap_params = "LAParams"
    /\ LET d == pair_docs[k]
           got == extract_with_pdfminer(d.fallback[1])
       IN  frames' = IF frames[frame_of(k)].extraction_success \/ d.fallback = Absent
                     THEN frames
                     ELSE [frames EXCEPT ![frame_of(k)].pages = got,
                                         ![frame_of(k)].extraction_success =
                                             IF any_text(got) THEN TRUE ELSE @]
    /\ UNCHANGED returned
    /\ PairStep(k, "ocr")

\* line 55: use_ocr is false
PairSkipOcr(k) ==
    /\ pair_pc[k] = "ocr"
    /\ ~pair_args[k]
    /\ UNCHANGED <<frames, returned>>
    /\ PairStep(k, "finish")

\* lines 211-216 and 58-60: the OCR module cannot be imported
PairOcrImportFails(k) ==
    /\ pair_pc[k] = "ocr"
    /\ pair_args[k]
    /\ ~ocr_importable
    /\ frames' = [frames EXCEPT ![frame_of(k)].extraction_success =
                                    IF frames[frame_of(k)].pages # <<>> THEN TRUE ELSE @]
    /\ UNCHANGED returned
    /\ PairStep(k, "finish")

\* lines 212-218: the call builds its own PDFOCRProcessor
PairOcrBegin(k) ==
    /\ pair_pc[k] = "ocr"
    /\ pair_args[k]
    /\ ocr_importable
    /\ frames' = [frames EXCEPT ![frame_of(k)].i = 0]
    /\ UNCHANGED returned
    /\ PairStep(k, "ocr_loop")

\* lines 220-261: the next page of the loop
PairOcrPage(k) ==
    /\ pair_pc[k] = "ocr_loop"
    /\ frames[frame_of(k)].i < Len(frames[frame_of(k)].pages)
    /\ LET i    == frames[frame_of(k)].i + 1
           page == frames[frame_of(k)].pages[i]
           should_use_ocr == should_apply_ocr(page, Strip(page.text))
           ocr_result == IF should_use_ocr
                         THEN ocr_page_of(pair_docs[k], page.page_number)
                         ELSE Absent
       IN  frames' = [frames EXCEPT
                         ![frame_of(k)].pages[i] = ocr_enhance_page(page, should_use_ocr, ocr_result),
                         ![frame_of(k)].i = i]
    /\ UNCHANGED returned
    /\ PairStep(k, "ocr_loop")

\* lines 263-267 and 58-60
PairOcrEnd(k) ==
    /\ pair_pc[k] = "ocr_loop"
    /\ frames[frame_of(k)].i >= Len(frames[frame_of(k)].pages)
    /\ frames' = [frames EXCEPT ![frame_of(k)].extraction_success =
                                    IF frames[frame_of(k)].pages # <<>> THEN TRUE ELSE @]
    /\ UNCHANGED returned
    /\ PairStep(k, "finish")

\* lines 66-69
PairReturn(k) ==
    /\ pair_pc[k] = "finish"
    /\ LET f     == frames[frame_of(k)]
           final == IF f.pages = <<>>
                    THEN create_empty_pages([opens |-> pair_docs[k].opens, page_count |-> 1])
                    ELSE f.pages
       IN  /\ frames' = [frames EXCEPT ![frame_of(k)].pages = final]
           /\ returned' = [returned EXCEPT ![k] =
                              <<[success |-> f.extraction_success, pages |-> final]>>]
    /\ PairStep(k, "returned")

PairNext ==
    \E k \in Invocations :
        \/ PairPymupdf(k) \/ PairPdfminer(k)
        \/ PairSkipOcr(k) \/ PairOcrImportFails(k) \/ PairOcrBegin(k)
        \/ PairOcrPage(k) \/ PairOcrEnd(k)
        \/ PairReturn(k)

InitPair == PipeIdle /\ CellsIdle /\ LineIdle /\ TableIdle /\ PairInit /\ DecideIdle /\ SplitIdle

SpecPair == InitPair /\ [][PairNext]_vars

\* what extract_text_from_pdf(d, use_ocr) returns when it runs alone
AloneResult(d, arg_use_ocr) ==
    LET step1 == IF d.primary = Absent THEN <<>>
                 ELSE <<pymupdf_page(1, d.primary[1], d.primary[2])>>
        ok1   == \E i \in 1..Len(step1) : ~Blank(step1[i].text)
        step2 == IF ok1 \/ d.fallback = Absent THEN step1
                 ELSE extract_with_pdfminer(d.fallback[1])
        ok2   == \E i \in 1..Len(step2) : ~Blank(step2[i].text)
        step3 == IF arg_use_ocr /\ ocr_importable
                 THEN [i \in 1..Len(step2) |->
                          LET should_use_ocr == should_apply_ocr(step2[i], Strip(step2[i].text))
                          IN  ocr_enhance_page(step2[i], should_use_ocr,
                                  IF should_use_ocr
                                  THEN ocr_page_of(d, step2[i].page_number)
                                  ELSE Absent)]
                 ELSE step2
        ok3   == IF arg_use_ocr /\ step3 # <<>> THEN TRUE ELSE ok2
    IN  [success |-> ok3,
         pages   |-> IF step3 = <<>>
                     THEN create_empty_pages([opens |-> d.opens, page_count |-> 1])
                     ELSE step3]

\* C19: two calls on different documents, run on one extractor object with
\* their steps interleaved in any order, each return what they return when run
\* alone; a step of one call changes the locals and the result of that call
\* only, and no step writes the extractor object.
C19_CallsDoNotInterfere ==
    /\ [](\A k \in Invocations :
             returned # <<>> /\ returned[k] # Absent
                 => returned[k][1] = AloneResult(pair_docs[k], pair_args[k]))
    /\ [][/\ extractor' = extractor
          /\ frames # <<>> =>
                \A k \in Invocations :
                    k # turn' => frames'[k] = frames[k] /\ returned'[k] = returned[k]]_vars

\* C19, its case: call 2 has just returned while call 1, which has worked on a
\* page in its OCR loop, is not over
C19_Witness ==
    /\ turn = 2
    /\ pair_pc[2] = "returned" /\ returned[2] # Absent
    /\ pair_pc[1] = "ocr_loop" /\ frames[1].i = 1
    /\ frames[1].pages # returned[2][1].pages

(***************************************************************************)
(* _should_apply_ocr(page, page_text) as a state machine: the page is one  *)
(* of PyMuPDF (with a span) or of pdfminer, its text a few fragments.      *)
(***************************************************************************)
MaxParts == 3

\* what a page text is made of: 51 characters of prose, 적립부분, 경과기간, 환급금,
\* 보험료, a digit, two blanks, U+FFFD, three one-letter words
DecisionFragments ==
    { LongProse, <<"jeok", "rip", "bu", "bun">>, KwElapsed, KwRefund,
      <<"bo", "heom", "ryo">>, <<"1">>, <<" ", " ">>, <<"ufffd">>,
      <<"x", " ", "y", " ", "z", " ">> }

DecisionTexts ==
    {ConcatAll(parts) : parts \in UNION {[1..n -> DecisionFragments] : n \in 0..MaxParts}}

\* a page of PyMuPDF has a span when its text is not blank; a page of pdfminer
\* has neither text_objects_count nor cid_to_unicode_failure_rate
DecisionInit ==
    /\ decision_page \in
          {pdfminer_page(1, t) : t \in DecisionTexts} \cup
          {pymupdf_page(1, t, IF Strip(t) = <<>> THEN 0 ELSE 1) : t \in DecisionTexts}
    /\ decision = Absent

\* lines 221 and 225: should_use_ocr = self._should_apply_ocr(page, page_text)
ShouldApplyOcr ==
    /\ decision = Absent
    /\ decision' = <<should_apply_ocr(decision_page, Strip(decision_page.text))>>
    /\ UNCHANGED decision_page
    /\ UNCHANGED decideForeign

InitDecision == PipeIdle /\ CellsIdle /\ LineIdle /\ TableIdle /\ PairIdle /\ DecisionInit /\ SplitIdle

SpecDecision == InitDecision /\ [][ShouldApplyOcr]_vars

\* the decision has been taken for a page the trust rule does not apply to
UntrustedDecided == decision # Absent /\ ~Trusted(decision_page)

\* the stripped text of the page contains a keyword of the table-line classifier
HasClassifierKeyword == ContainsAny(Strip(decision_page.text), surrender_keywords)

\* C21: for a page the trust rule does not apply to, a text that contains a
\* keyword of the table-line classifier (해약환급금, 환급금, 경과기간, 납입보험료,
\* 적립부분, 보장부분) gives the decision to invoke OCR, whatever its length and
\* quality.
C21_ClassifierKeywordForcesOcr ==
    (UntrustedDecided /\ HasClassifierKeyword) => decision[1]

\* C22: for a page the trust rule does not apply to and whose text contains no
\* keyword of the table-line classifier, the decision is to invoke OCR iff the
\* text is shorter than 50 characters, or looks like a scanned artifact
\* (artifact characters, odd spacing, one-letter words), or shows encoding
\* corruption markers.
C22_QualityRuleWithoutKeyword ==
    (UntrustedDecided /\ ~HasClassifierKeyword) =>
        LET page_text == Strip(decision_page.text)
        IN  decision[1] <=> \/ Len(page_text) < 50
                            \/ is_likely_scanned_page(page_text)
                            \/ has_poor_text_quality(page_text)

(***************************************************************************)
(* Further claims about the surrender-value parser.                        *)
(***************************************************************************)
\* the lines of the document, and those that start and stop the section
DocLines == table_doc.intro \o table_doc.header \o Flatten(table_doc.rows) \o table_doc.trailer

IsStartLine(line) == Contains(line, KwSurrenderExample) \/ Contains(line, KwElapsed)
IsStopLine(line)  == StartsWith(line, KwSurrender) /\ Contains(line, SectionEndMark)

StartLines == {i \in 1..Len(DocLines) : IsStartLine(DocLines[i])}
FirstStart == SetMin(StartLines)
StopLines  == {i \in FirstStart..Len(DocLines) : IsStopLine(DocLines[i])}
LastKept   == IF StopLines = {} THEN Len(DocLines) ELSE SetMin(StopLines) - 1

\* C23: without a line that contains 해약환급금 예시 or 경과기간 the parser returns
\* the empty list; otherwise what it returns is what the lines from the first
\* such line up to the line before the first stop line (one that starts with
\* 해약환급금 and contains ①) give, and every column of every returned entry is
\* one of these lines: no line before the start or from the stop line on appears.
C23_SectionIsolation ==
    table_result # Absent =>
        IF StartLines = {} THEN Entries = <<>>
        ELSE /\ Entries = IF LastKept < FirstStart THEN <<>>
                          ELSE parse_table_data(
                                   Join(SubSeq(DocLines, FirstStart, LastKept), <<"\n">>))
             /\ \A e \in 1..Len(Entries) : \A c \in 1..Len(Entries[e].columns) :
                   \E i \in FirstStart..LastKept : DocLines[i] = Entries[e].columns[c]

\* C23, its case: a row before the start line, rows after the stop line, and a
\* header and a data row returned from between them
C23_Witness ==
    /\ table_result # Absent
    /\ StartLines # {} /\ FirstStart > 1
    /\ StopLines # {} /\ LastKept + 1 < Len(DocLines)
    /\ Len(Entries) >= 2

\* the section of the document: its lines from the first start line to the
\* line before the first stop line
SectionLines ==
    LET lines  == DocLines
        starts == {i \in 1..Len(lines) : IsStartLine(lines[i])}
        first  == SetMin(starts)
        stops  == {i \in first..Len(lines) : IsStopLine(lines[i])}
    IN  IF starts = {} THEN <<>>
        ELSE SubSeq(lines, first, IF stops = {} THEN Len(lines) ELSE SetMin(stops) - 1)

RowStartsOf(lines) == {i \in 1..Len(lines) : is_row_start(lines[i])}

\* the lines after the first row start that are neither a row start nor a
\* number line: the first of them ends the scan
EndLinesOf(lines, row_starts) ==
    IF row_starts = {} THEN {}
    ELSE {i \in (SetMin(row_starts) + 1)..Len(lines) :
             i \notin row_starts /\ ~is_number_line(lines[i])}

DataEntriesOf(entries) == {e \in 1..Len(entries) : entries[e].type = "data"}

\* C24: once a data row is open, the first line that is neither a row start
\* (N년, 만기) nor a number line (digits and a comma, a decimal percentage, the
\* line 0) ends the scan: the open row is the last data entry, there are as
\* many data entries as row starts before that line, and every column of every
\* data entry is a line before it, whatever the lines after it look like.
C24_FirstOtherLineEndsScan ==
    (table_result # Absent /\ table_result[1] # <<>>) =>
        LET lines      == SectionLines
            entries    == table_result[1]
            row_starts == RowStartsOf(lines)
            end_lines  == EndLinesOf(lines, row_starts)
            end        == SetMin(end_lines)
            before     == {i \in row_starts : i < end}
            data       == DataEntriesOf(entries)
        IN  end_lines # {} =>
              /\ entries[Len(entries)].type = "data"
              /\ entries[Len(entries)].columns = SubSeq(lines, SetMax(before), end - 1)
              /\ Cardinality(data) = Cardinality(before)
              /\ \A e \in data : \A c \in 1..Len(entries[e].columns) :
                    \E i \in 1..(end - 1) : lines[i] = entries[e].columns[c]

\* C24, its case: a line of prose after two rows ended the scan, and a row
\* follows it in the section
C24_Witness ==
    /\ table_result # Absent /\ table_result[1] # <<>>
    /\ LET lines      == SectionLines
           row_starts == RowStartsOf(lines)
           end_lines  == EndLinesOf(lines, row_starts)
       IN  /\ end_lines # {}
           /\ \E i \in row_starts : i > SetMin(end_lines)
           /\ Cardinality(DataEntriesOf(table_result[1])) = 2

(***************************************************************************)
(* _split_text_into_pages(text) as a state machine: the text is a number   *)
(* of lines "a", at most one of them empty.                                *)
(***************************************************************************)
MaxSplitLines == 21

\* n lines "a", the k-th of them empty (none when k = 0)
SplitLinesOf(n, k) == [i \in 1..n |-> IF i = k THEN <<>> ELSE <<"a">>]

SplitTexts ==
    {Join(SplitLinesOf(n, k), <<"\n">>) : n \in 1..MaxSplitLines, k \in 0..MaxSplitLines}

SplitInit ==
    /\ split_text \in SplitTexts
    /\ split_pages = Absent

\* line 127: text_parts = self._split_text_into_pages(full_text)
SplitTextIntoPages ==
    /\ split_pages = Absent
    /\ split_pages' = <<split_text_into_pages(split_text)>>
    /\ UNCHANGED split_text
    /\ UNCHANGED splitForeign

InitSplit == PipeIdle /\ CellsIdle /\ LineIdle /\ TableIdle /\ PairIdle /\ DecideIdle /\ SplitInit

SpecSplit == InitSplit /\ [][SplitTextIntoPages]_vars

\* the number of lines of a chunk
ChunkLines(chunk) == Len(SplitOn(chunk, "\n"))

\* C25: the text is segmented into exactly 10 chunks, whatever its number of
\* lines, and all chunks except possibly the last have the same number of
\* lines.
C25_ExactlyTenChunks ==
    split_pages # Absent =>
        LET chunks == split_pages[1]
        IN  /\ Len(chunks) = AssumedPages
            /\ \A i \in 1..(Len(chunks) - 1) : ChunkLines(chunks[i]) = ChunkLines(chunks[1])

\* C25, the part that the code keeps: all chunks except possibly the last have
\* the same number of lines
C25_EqualLineCounts ==
    split_pages # Absent =>
        LET chunks == split_pages[1]
        IN  \A i \in 1..(Len(chunks) - 1) : ChunkLines(chunks[i]) = ChunkLines(chunks[1])

\* C29: joining the chunks with a newline, in order, gives back the text, and
\* no chunk is empty unless the text itself is empty.
C29_JoinGivesTextNoEmptyChunk ==
    split_pages # Absent =>
        LET chunks == split_pages[1]
        IN  /\ Join(chunks, <<"\n">>) = split_text
            /\ split_text # <<>> => \A i \in 1..Len(chunks) : chunks[i] # <<>>

\* C29, the part that the code keeps: the round trip
C29_JoinGivesText ==
    split_pages # Absent => Join(split_pages[1], <<"\n">>) = split_text

(***************************************************************************)
(* Further claims about extract_text_from_pdf.                             *)
(***************************************************************************)
\* C26: in every returned page, for either value of use_ocr and whether or not
\* OCR changed the page, text_length is the length of text and has_text is true
\* exactly when text has a character that is not whitespace.
C26_DerivedFieldsAgree ==
    Returned =>
        \A i \in 1..Len(result[1].pages) :
            LET page == result[1].pages[i]
            IN  /\ page.text_length = Len(page.text)
                /\ page.has_text <=> ~Blank(page.text)

\* C26, the part that the code keeps: text_length is the length of text
C26_TextLengthAgrees ==
    Returned =>
        \A i \in 1..Len(result[1].pages) :
            result[1].pages[i].text_length = Len(result[1].pages[i].text)

\* the page numbers of a list of pages are 1, 2, ... in list order
NumberedFromOne(ps) == \A i \in 1..Len(ps) : ps[i].page_number = i

\* C27: in every list of pages, from whichever backend and after the OCR
\* enhancement pass, the page at position i (counting from 1) has page_number
\* i, and the OCR enhancement pass never adds, removes or reorders pages: the
\* list has the length it had before the pass, with the same page numbers.
C27_PagesNumberedInOrder ==
    /\ NumberedFromOne(pages)
    /\ Returned => NumberedFromOne(result[1].pages)
    /\ (Invoked("ocr") /\ ~Invoked("empty_pages")) =>
          /\ Len(pages) = Len(pre_ocr)
          /\ \A i \in 1..Len(pages) : pages[i].page_number = pre_ocr[i].page_number

\* C27, its case: two pages of the fallback backend went through the OCR pass,
\* one of them changed by it, and were returned
C27_Witness ==
    /\ Returned
    /\ Len(result[1].pages) = 2
    /\ Invoked("pdfminer") /\ Invoked("ocr") /\ ~Invoked("empty_pages")
    /\ \E i \in 1..2 : result[1].pages[i].has_ocr = <<TRUE>>

\* the pages the loop of _apply_ocr_enhancement has processed
Processed == 1..Len(ocr_trace)

\* C28: after the OCR enhancement pass has processed a page, has_ocr is true
\* iff its extraction_method is ocr_enhanced or hybrid; a page with has_ocr
\* false has the extraction_method and the text it had before the pass; and
\* original_text is set only on pages whose extraction_method is ocr_enhanced.
C28_HasOcrMatchesMethod ==
    \A i \in Processed :
        LET page == pages[i]
        IN  /\ page.has_ocr # Absent
            /\ page.has_ocr[1] <=> page.extraction_method \in {"ocr_enhanced", "hybrid"}
            /\ ~page.has_ocr[1] =>
                  /\ page.extraction_method = pre_ocr[i].extraction_method
                  /\ page.text = pre_ocr[i].text
            /\ page.original_text # Absent => page.extraction_method = "ocr_enhanced"

\* C28, its case: the pass has processed two pages, one left as it was and one
\* whose text was combined with OCR text
C28_Witness ==
    /\ Len(ocr_trace) = 2
    /\ \E i \in Processed : pages[i].has_ocr = <<FALSE>>
    /\ \E i \in Processed : pages[i].extraction_method = "hybrid"

\* C30: whenever OCR text was merged into a page (has_ocr is true), the
\* ocr_confidence stored on the page is the confidence that the engine which
\* produced the text returned for that page.
C30_StoredConfidenceIsEngines ==
    \A i \in Processed :
        pages[i].has_ocr = <<TRUE>> =>
            pages[i].ocr_confidence = <<ocr_trace[i].ret[1].ocr_confidence>>

====
